---- MODULE Spec2Model ----
(***************************************************************************)
(* A model of gopls' type-checking engine (package cache, check.go):       *)
(* snapshot.TypeCheck, the shared import graph latch, the type-check batch *)
(* with its futures and CPU semaphore, and the package handle store.       *)
(*                                                                         *)
(* Every goroutine and every call of getImportPackage/handleSyntaxPackage  *)
(* is a frame of `tasks`; a frame's pc is its position in the function.    *)
(***************************************************************************)
EXTENDS Naturals, Integers, Sequences, FiniteSets, TLC

\* ------------------------------------------------------------------ bounds

\* Number of goroutines that call buildPackageHandle at once.
NumBuilders == 2
\* Number of TypeCheck requests issued against the snapshot.
NumCalls == 2
\* Width of the batch's CPU semaphore (runtime.GOMAXPROCS(0)).
CpuWidth == 1
\* The depth at which a recursion is no longer followed.
MaxDepth == 6

\* The number of changes of the metadata while handles are built.
MaxLoads == 1

\* ------------------------------------------------------------- the universe

PackageIDs == {"A", "B", "C", "D", "M"}
Calls == 1..NumCalls
\* Batch 0 is the batch that resolveImportGraph runs; batch c belongs to
\* TypeCheck request c.
Batches == 0..NumCalls

\* The file sets: one per batch, and the one of the import graph carried
\* over from the preceding snapshot.
LastFileSet == NumCalls + 1
FileSets == Batches \cup {LastFileSet}

NoMeta == [deps |-> {}, files |-> 0, ok |-> FALSE]
Meta(deps, files) == [deps |-> deps, files |-> files, ok |-> TRUE]

\* A *types.Package (how = "syntax" | "stripped" | "export") or a *Package
\* (how = "syntax"); n is the ordinal of the build that produced it within
\* its batch.
NilPkg == [b |-> 0, id |-> "", how |-> "nil", n |-> 0]
Pkg(b, id, how, n) == [b |-> b, id |-> id, how |-> how, n |-> n]

NoFuture == [st |-> "none", pkg |-> NilPkg, err |-> ""]
Pending == [st |-> "pending", pkg |-> NilPkg, err |-> ""]
Done(pkg, err) == [st |-> "done", pkg |-> pkg, err |-> err]

NoHandle == [id |-> "", deps |-> {}]

\* The pre function of a request: none (TypeCheck passes nil), or one that
\* returns false for the ids in skip.
NilPre == [set |-> FALSE, skip |-> {}]
PreFunc(skip) == [set |-> TRUE, skip |-> skip]

\* No recursive walk is being followed.
NoWalk == [fn |-> "none", stack |-> <<>>, seen |-> {}, vol |-> {}]

\* The computation of deps has not begun.
NoResolve == [pc |-> "idle", open |-> {}, todo |-> {}, deps |-> <<>>, roots |-> {},
              stack |-> <<>>, seen |-> {}, vol |-> {}]

\* No goroutine has called buildPackageHandle.
NoReturn == [id |-> "", err |-> ""]
NoBuilders == [run |-> [g \in 1..NumBuilders |->
                    [pc |-> "idle", stack |-> <<>>, ret |-> NoReturn, ctx |-> FALSE]],
               got |-> {}, loads |-> 0]

\* No function is being applied.
NoPure == [fn |-> "none"]

\* No import graph (nil).  deps maps package ids to handle keys.
NoGraph == [ok |-> FALSE, fset |-> 0, deps |-> <<>>,
            imports |-> [id \in PackageIDs |-> NoFuture]]

VARIABLES
    meta,            \* s.meta.metadata: PackageID -> Metadata
    overlays,        \* ids of the packages that hold an overlay (open) file
    unreadable,      \* ids of the packages one of whose files fails to read
    requests,        \* the ids of each TypeCheck request
    cancellable,     \* requests whose context may be cancelled
    packages,        \* s.packages: the handle store
    activePackages,  \* s.activePackages
    cache,           \* filecache, export data kind, by package key
    pendingPut,      \* the goroutines that write to the file cache
    importGraphDone, \* s.importGraphDone: "nil" | "open" | "closed"
    importGraph,     \* s.importGraph
    resolver,        \* position of the goroutine started by getImportGraph
    calls,           \* the TypeCheck activations
    ctxDone,         \* whether the context of request c is cancelled
    started,         \* batches that forEachPackageInternal has created
    syntaxIndex,     \* b.syntaxIndex
    syntaxPackages,  \* b.syntaxPackages
    importPackages,  \* b.importPackages
    cpulimit,        \* number of tokens in b.cpulimit
    gErr,            \* the error of forEachPackageInternal's errgroup
    tasks,           \* frames of handleSyntaxPackage and getImportPackage
    fsets,           \* the files of each token.FileSet, by package id
    nCheck,          \* checkPackage calls per batch and id
    nImport,         \* import-only builds per batch and id
    nPost,           \* post calls per batch and id
    panicked,        \* a goroutine has panicked (the process is gone)
    pre,             \* the pre function each request passes to forEachPackage
    walk,            \* the call stack of one recursive walk over the metadata
    resolve,         \* the computation of deps in resolveImportGraph, step by step
    builders,        \* goroutines that call buildPackageHandle, and what they returned
    pure             \* the input and the output of a function without state

given == <<meta, overlays, unreadable, requests, cancellable, pre>>
world == <<given, walk, resolve, builders, pure>>
snap == <<packages, activePackages, cache, pendingPut, importGraphDone, importGraph, resolver>>
batch == <<started, syntaxIndex, fsets, syntaxPackages, importPackages, cpulimit, gErr, tasks>>
counters == <<nCheck, nImport, nPost>>
vars == <<world, snap, batch, counters, calls, ctxDone, panicked>>


\* ------------------------------------------------------------ small helpers

IdOrder == <<"A", "B", "C", "D", "M">>
InOrder(S) == SelectSeq(IdOrder, LAMBDA x : x \in S)

\* The context of batch b: the import graph's batch runs on the snapshot's
\* detached background context, batch c on the context of request c.
Ctx(b) == IF b = 0 THEN FALSE ELSE ctxDone[b]

\* A batch that type-checks with the file set of the import graph itself.
SameFileSet(b, fset) == fset

\* tokeninternal.CloneFileSet: a new file set, the batch's own, that starts
\* with the files of fset.
CloneFileSet(b, fset) == b

\* b.fset: the file set of batch b; a batch that was handed an import graph
\* uses the clone of the graph's file set.
FsetOf(b) ==
    IF b \in Calls /\ calls[b].graph THEN CloneFileSet(b, importGraph.fset) ELSE b

\* parseFiles(ctx, b.fset, ...) or IImportShallow(b.fset, ...): the files
\* of package id are added to the file set of batch b.
ParseFiles(b, id) == [fsets EXCEPT ![FsetOf(b)] = @ \cup {id}]

\* b.pre: resolveImportGraph passes nil.
PreOf(b) == IF b = 0 THEN NilPre ELSE pre[b]

\* ---------------------------------------------------- package handle store

\* A buildPackageHandle that fails when a dependency has no metadata.
BuildErrOfDeps(id, cancelled) ==
    IF ~meta[id].ok \/ \E d \in meta[id].deps : ~meta[d].ok THEN "nometa"
    ELSE IF id \in unreadable THEN "io"
    ELSE ""

\* The error of buildPackageHandle(ctx, id); "" is nil.
RECURSIVE BuildErr(_, _)
BuildErr(id, cancelled) ==
    IF ~meta[id].ok THEN "nometa"
    ELSE IF packages[id] # NoHandle THEN ""
    ELSE IF cancelled /\ \E d \in meta[id].deps : BuildErr(d, cancelled) # ""
         THEN "cancelled"
    ELSE IF id \in unreadable THEN "io"
    ELSE ""

\* Whether buildPackageHandle(id) succeeds under a live context.
CanBuild(id) == meta[id].ok /\ id \notin unreadable

\* inputs.deps: the dependencies whose handle could be built.
InputDeps(id) == {d \in meta[id].deps : CanBuild(d)}

NewHandle(id) == [id |-> id, deps |-> InputDeps(id)]

\* The ids for which a complete call buildPackageHandle(id) stores a new handle.
RECURSIVE StoredBy(_, _)
StoredBy(id, cancelled) ==
    IF ~meta[id].ok \/ packages[id] # NoHandle THEN {}
    ELSE UNION {StoredBy(d, cancelled) : d \in meta[id].deps}
         \cup (IF BuildErr(id, cancelled) = "" THEN {id} ELSE {})

Store(ids) == [p \in PackageIDs |-> IF p \in ids /\ packages[p] = NoHandle
                                    THEN NewHandle(p) ELSE packages[p]]

\* The handle store after typeCheckInputs(id) has built the handles of id's
\* dependencies.
TypeCheckInputs(id, cancelled) ==
    Store(UNION {StoredBy(d, cancelled) : d \in meta[id].deps})

\* ------------------------------------------------------------ import graph

RECURSIVE IsVolatile(_)
IsVolatile(id) ==
    \/ id \in overlays
    \/ meta[id].ok /\ \E d \in meta[id].deps : IsVolatile(d)

\* The direct dependencies of open packages whose handle can be built.
OpenDeps == {d \in UNION {meta[o].deps : o \in overlays} : CanBuild(d)}

\* deps of resolveImportGraph, after the upward cone of the open packages
\* has been erased.
GraphDeps == {d \in OpenDeps : ~IsVolatile(d)}

\* computePackageKey: the hash of the id, the keys of the dependencies and
\* the files of the package, as the value that is hashed.
RECURSIVE ComputePackageKey(_)
ComputePackageKey(id) ==
    [id |-> id, files |-> meta[id].files,
     deps |-> {ComputePackageKey(d) : d \in InputDeps(id)}]

\* deps of resolveImportGraph: deps[id] = ph.key
DepsMap == [d \in GraphDeps |-> ComputePackageKey(d)]

\* A comparison of the sizes of the two maps only.
UnchangedBySize(last, deps) ==
    last.ok /\ Cardinality(DOMAIN deps) = Cardinality(DOMAIN last.deps)

\* unchanged: the last graph exists, its deps has the length of deps, and
\* every id of deps is in it with the same key.
Unchanged(last, deps) ==
    /\ last.ok /\ Cardinality(DOMAIN deps) = Cardinality(DOMAIN last.deps)
    /\ \A id \in DOMAIN deps : id \in DOMAIN last.deps /\ last.deps[id] = deps[id]

\* The import graph carried over from the preceding snapshot: none; one
\* computed from the same dependencies ("same"); one in which the files of
\* a dependency were different ("stale"); one over as many other packages
\* ("other"); one without dependencies ("empty").
LastGraph(kind) ==
    LET With(deps) ==
            [ok |-> TRUE, fset |-> LastFileSet, deps |-> deps,
             imports |-> [id \in PackageIDs |->
                IF id \in DOMAIN deps THEN Done(Pkg(0, id, "export", 1), "") ELSE NoFuture]]
        others == {ids \in SUBSET {"B", "C"} :
                     ids # GraphDeps /\ Cardinality(ids) = Cardinality(GraphDeps)}
    IN CASE kind = "same" -> With(DepsMap)
         [] kind = "stale" ->
                With([d \in GraphDeps |-> [ComputePackageKey(d) EXCEPT !.files = @ + 1]])
         [] kind = "other" ->
                With([d \in CHOOSE ids \in others : TRUE |-> ComputePackageKey(d)])
         [] kind = "empty" -> With(<<>>)
         [] OTHER -> NoGraph

\* ---------------------------------------------------------- TypeCheck, post

\* memoizeActivePackage: the map after memoizing pkg under id; the instance
\* already memoized wins.
MemoizeActivePackage(id, pkg) ==
    IF activePackages[id] # NilPkg THEN activePackages
    ELSE [activePackages EXCEPT ![id] = pkg]

\* A post callback that keeps the package its own batch built.
PostOwn(alt, pkg) == pkg

\* The package the post callback of TypeCheck puts in the result slot.
PostPkg(alt, pkg) == IF alt # NilPkg /\ alt # pkg THEN alt ELSE pkg

\* A TypeCheck that finds no active package.
NeverActive(id) == FALSE

\* Whether TypeCheck takes the package of id from the active packages.
IsActive(id) == activePackages[id] # NilPkg

\* The indexes (1-based) of the ids that TypeCheck has to type-check.
NeedIndexes(ids) == SelectSeq([k \in 1..Len(ids) |-> k], LAMBDA k : ~IsActive(ids[k]))

\* b.syntaxIndex after the loop over syntaxIDs: the last index of each id.
SyntaxIndexOf(ids) ==
    [p \in PackageIDs |->
        IF \E k \in 1..Len(ids) : ids[k] = p
        THEN CHOOSE k \in 1..Len(ids) : ids[k] = p /\ \A j \in (k+1)..Len(ids) : ids[j] # p
        ELSE 0]

\* ------------------------------------------------------------------ frames

\* A call of handleSyntaxPackage (kind "syntax") or getImportPackage (kind
\* "import") in batch b.  pk/pid name the caller: "top" for a goroutine of
\* forEachPackageInternal, else the kind and id of the calling frame.  dep
\* records what handleSyntaxPackage found when awaitPredecessors returned an
\* error: "live" or "cancelled" for the state of its context.  held is what
\* the file cache held for the package when getImportPackage installed its
\* future, read what filecache.Get returned to it.
Frame(b, kind, id, i, pk, pid) ==
    [b |-> b, kind |-> kind, id |-> id, i |-> i, pk |-> pk, pid |-> pid,
     pc |-> "start", pkg |-> NilPkg, err |-> "",
     mode |-> "", todo |-> <<>>, failed |-> FALSE, dep |-> "", pre |-> "",
     held |-> "", read |-> ""]

SameFrame(u, t) ==
    /\ u.b = t.b /\ u.kind = t.kind /\ u.id = t.id /\ u.i = t.i
    /\ u.pk = t.pk /\ u.pid = t.pid

Returned(t, pkg, err) == [t EXCEPT !.pc = "done", !.pkg = pkg, !.err = err]

TopFrames(b) == {t \in tasks : t.b = b /\ t.pk = "top"}
ChildFrames(t) == {u \in tasks : u.b = t.b /\ u.pk = t.kind /\ u.pid = t.id}

\* errgroup.Group: Wait returns the first non-nil error a goroutine returned.
GroupErr(t, err) ==
    IF t.pk = "top" /\ err # "" /\ gErr[t.b] = ""
    THEN [gErr EXCEPT ![t.b] = err] ELSE gErr

\* A deferred function that stores the value and leaves f.done open.
StoredNotClosed(pkg, err) == [st |-> "pending", pkg |-> pkg, err |-> err]

\* defer func() { f.v = pkgOrErr{pkg, err}; close(f.done) }()
StoreAndClose(pkg, err) == Done(pkg, err)

\* The frame that installed the future returns (pkg, err): its deferred
\* function stores the value and closes f.done.
FinishProducer(t, pkg, err) ==
    /\ tasks' = {u \in tasks : ~SameFrame(u, t)} \cup {Returned(t, pkg, err)}
    /\ gErr' = GroupErr(t, err)
    /\ IF t.kind = "syntax"
       THEN /\ syntaxPackages' = [syntaxPackages EXCEPT ![t.b][t.id] = StoreAndClose(pkg, err)]
            /\ UNCHANGED importPackages
       ELSE /\ importPackages' = [importPackages EXCEPT ![t.b][t.id] = StoreAndClose(pkg, err)]
            /\ UNCHANGED syntaxPackages

\* A frame that found the future installed returns (pkg, err).
FinishWaiter(t, pkg, err) ==
    /\ tasks' = (tasks \ {t}) \cup {Returned(t, pkg, err)}
    /\ gErr' = GroupErr(t, err)
    /\ UNCHANGED <<syntaxPackages, importPackages>>

\* b.importMap(id) dereferences the metadata of every package in the
\* transitive closure of DepsByPkgPath: whether one of them has none.
RECURSIVE ImportMapPanics(_)
ImportMapPanics(id) ==
    \E d \in meta[id].deps : ~meta[d].ok \/ ImportMapPanics(d)

\* A getImportPackage that takes every answer of the cache for a miss.
CacheIgnored(id) == TRUE

\* if err == filecache.ErrNotFound
CacheNotFound(id) == cache[id] = "none"

\* A handleSyntaxPackage that does not call pre.
PreIgnored(b, id) == FALSE

\* if b.pre != nil && !b.pre(i, ph)
PreSkips(b, id) == PreOf(b).set /\ id \in PreOf(b).skip

\* What a frame does once buildPackageHandle has returned the handle.
\*  - handleSyntaxPackage: pre, when set, is called; if it returns false the
\*    package is skipped with (nil, nil).
\*  - handleSyntaxPackage, otherwise: awaitPredecessors starts one goroutine
\*    per entry of DepsByPkgPath.
\*  - getImportPackage: filecache.Get, then checkPackageForImport up to
\*    check.Files, or importPackage up to IImportShallow.
AfterHandle(t) ==
    IF t.kind = "syntax" /\ PreSkips(t.b, t.id)
    THEN /\ FinishProducer([t EXCEPT !.pre = "false"], NilPkg, "")
         /\ UNCHANGED <<nImport, panicked>>
    ELSE IF t.kind = "syntax"
    THEN /\ tasks' = (tasks \ {t})
                \cup {[t EXCEPT !.pc = IF meta[t.id].deps = {} THEN "acquire" ELSE "awaiting",
                                !.pre = IF PreOf(t.b).set THEN "true" ELSE ""]}
                \cup {Frame(t.b, "import", d, 0, "syntax", t.id) : d \in meta[t.id].deps}
         /\ UNCHANGED <<syntaxPackages, importPackages, gErr, nImport, panicked>>
    ELSE LET r == [t EXCEPT !.read = cache[t.id]]
         IN CASE cache[t.id] = "err" ->
                /\ FinishProducer(r, NilPkg, "cacheread")
                /\ UNCHANGED <<nImport, panicked>>
           [] CacheNotFound(t.id) ->
                /\ nImport' = [nImport EXCEPT ![t.b][t.id] = @ + 1]
                /\ UNCHANGED panicked
                /\ IF Ctx(t.b)
                   THEN FinishProducer(r, NilPkg, "cancelled")
                   ELSE /\ tasks' = (tasks \ {t}) \cup
                              {[r EXCEPT !.pc = "loop", !.mode = "stripped",
                                         !.todo = InOrder(InputDeps(t.id))]}
                        /\ UNCHANGED <<syntaxPackages, importPackages, gErr>>
           [] OTHER ->
                /\ nImport' = [nImport EXCEPT ![t.b][t.id] = @ + 1]
                /\ IF ImportMapPanics(t.id)
                   THEN /\ panicked' = TRUE
                        /\ UNCHANGED <<tasks, syntaxPackages, importPackages, gErr>>
                   ELSE /\ UNCHANGED panicked
                        /\ IF Ctx(t.b) THEN FinishProducer(r, NilPkg, "cancelled")
                           ELSE IF cache[t.id] = "bad" THEN FinishProducer(r, NilPkg, "decode")
                           ELSE /\ tasks' = (tasks \ {t}) \cup
                                      {[r EXCEPT !.pc = "loop", !.mode = "export",
                                                 !.todo = InOrder(meta[t.id].deps)]}
                                /\ UNCHANGED <<syntaxPackages, importPackages, gErr>>

\* ----------------------------------------------------- buildPackageHandle

\* buildPackageHandle up to the second critical section.
BuildHandle(t) ==
    /\ ~panicked /\ t.pc = "build"
    /\ LET e == BuildErr(t.id, Ctx(t.b)) IN
       IF e # ""
       THEN /\ FinishProducer(t, NilPkg, e)
            /\ packages' = IF meta[t.id].ok THEN TypeCheckInputs(t.id, Ctx(t.b)) ELSE packages
            /\ UNCHANGED <<nImport, panicked>>
       ELSE IF packages[t.id] # NoHandle
       THEN /\ AfterHandle(t)
            /\ UNCHANGED packages
       ELSE /\ packages' = TypeCheckInputs(t.id, Ctx(t.b))
            /\ tasks' = (tasks \ {t}) \cup {[t EXCEPT !.pc = "insert"]}
            /\ UNCHANGED <<syntaxPackages, importPackages, gErr, nImport, panicked>>
    /\ UNCHANGED <<world, activePackages, cache, pendingPut, importGraphDone, importGraph,
                   resolver, started, syntaxIndex, fsets, cpulimit, nCheck, nPost, calls, ctxDone>>

\* The second critical section of buildPackageHandle: the handle is stored
\* unless another goroutine got there first.
InsertHandle(t) ==
    /\ ~panicked /\ t.pc = "insert"
    /\ packages' = Store({t.id})
    /\ AfterHandle(t)
    /\ UNCHANGED <<world, activePackages, cache, pendingPut, importGraphDone, importGraph,
                   resolver, started, syntaxIndex, fsets, cpulimit, nCheck, nPost, calls, ctxDone>>

\* ----------------------------------------------------- handleSyntaxPackage

\* A check that starts no goroutine to write to the file cache.
NoPutGoroutine(id, kind) == {}

\* go func() { ... filecache.Set ... }() after a full or a stripped check:
\* st is "go" until the goroutine has run, then "put" if it called
\* filecache.Set and "noexport" if it returned before.
PutGoroutine(id, kind) == {[id |-> id, kind |-> kind, st |-> "go"]}

\* A batch that never finds a syntax future installed.
SyntaxNeverInstalled(b, id) == FALSE

\* f, ok := b.syntaxPackages[id]
SyntaxInstalled(b, id) == syntaxPackages[b][id].st # "none"

\* A handleSyntaxPackage that gives up on any failed predecessor.
AwaitFailsAlways(failed, cancelled) == failed

\* Whether handleSyntaxPackage returns after awaitPredecessors: only when a
\* predecessor failed and the context is cancelled.
AwaitFails(failed, cancelled) == failed /\ cancelled

\* The first critical section: wait on the installed future, or install one.
HandleSyntaxPackage(t) ==
    /\ ~panicked /\ t.kind = "syntax" /\ t.pc = "start"
    /\ IF SyntaxInstalled(t.b, t.id)
       THEN /\ tasks' = (tasks \ {t}) \cup {[t EXCEPT !.pc = "wait"]}
            /\ UNCHANGED syntaxPackages
       ELSE /\ tasks' = (tasks \ {t}) \cup {[t EXCEPT !.pc = "build"]}
            /\ syntaxPackages' = [syntaxPackages EXCEPT ![t.b][t.id] = Pending]
    /\ UNCHANGED <<world, snap, started, syntaxIndex, fsets, importPackages, cpulimit, gErr,
                   counters, calls, ctxDone, panicked>>

\* <-f.done; return f.v.pkg, f.v.err
SyntaxWaitDone(t) ==
    /\ ~panicked /\ t.kind = "syntax" /\ t.pc = "wait"
    /\ syntaxPackages[t.b][t.id].st = "done"
    /\ FinishWaiter(t, syntaxPackages[t.b][t.id].pkg, syntaxPackages[t.b][t.id].err)
    /\ UNCHANGED <<world, snap, started, syntaxIndex, fsets, cpulimit, counters, calls, ctxDone,
                   panicked>>

\* An awaitPredecessors that does not wait for its goroutines.
PredecessorsNotAwaited(t) == TRUE

\* g.Wait() of awaitPredecessors: every getImportPackage has returned.
PredecessorsDone(t) == \A u \in ChildFrames(t) : u.pc = "done"

\* awaitPredecessors has returned.
AwaitPredecessors(t) ==
    /\ ~panicked /\ t.kind = "syntax" /\ t.pc = "awaiting"
    /\ PredecessorsDone(t)
    /\ LET failed == \E u \in ChildFrames(t) : u.err # ""
           seen == IF ~failed THEN "" ELSE IF Ctx(t.b) THEN "cancelled" ELSE "live"
       IN IF AwaitFails(failed, Ctx(t.b))
          THEN FinishProducer([t EXCEPT !.dep = seen], NilPkg, "cancelled")
          ELSE /\ tasks' = (tasks \ {t}) \cup {[t EXCEPT !.pc = "acquire", !.dep = seen]}
               /\ UNCHANGED <<syntaxPackages, importPackages, gErr>>
    /\ UNCHANGED <<world, snap, started, syntaxIndex, fsets, cpulimit, counters, calls, ctxDone,
                   panicked>>

\* select: case <-ctx.Done()
AcquireCancelled(t) ==
    /\ ~panicked /\ t.kind = "syntax" /\ t.pc = "acquire"
    /\ Ctx(t.b)
    /\ FinishProducer(t, NilPkg, "cancelled")
    /\ UNCHANGED <<world, snap, started, syntaxIndex, fsets, cpulimit, counters, calls, ctxDone,
                   panicked>>

\* select: case b.cpulimit <- struct{}{}; then checkPackage up to check.Files.
AcquireToken(t) ==
    /\ ~panicked /\ t.kind = "syntax" /\ t.pc = "acquire"
    /\ cpulimit[t.b] < CpuWidth
    /\ nCheck' = [nCheck EXCEPT ![t.b][t.id] = @ + 1]
    /\ IF meta[t.id].files = 0
       THEN FinishProducer(t, NilPkg, "nofiles") /\ UNCHANGED <<cpulimit, fsets>>
       ELSE IF Ctx(t.b)
       THEN FinishProducer(t, NilPkg, "cancelled") /\ UNCHANGED <<cpulimit, fsets>>
       ELSE /\ tasks' = (tasks \ {t}) \cup {[t EXCEPT !.pc = "checker"]}
            /\ cpulimit' = [cpulimit EXCEPT ![t.b] = @ + 1]
            /\ fsets' = ParseFiles(t.b, t.id)
            /\ UNCHANGED <<syntaxPackages, importPackages, gErr>>
    /\ UNCHANGED <<world, snap, started, syntaxIndex, nImport, nPost, calls, ctxDone,
                   panicked>>

\* A checker whose caller does not look at the context after check.Files.
CheckNeverCancelled(b) == FALSE

\* doTypeCheck after check.Files: if ctx.Err() != nil
CheckCancelled(b) == Ctx(b)

\* A handleSyntaxPackage whose deferred function does not receive from
\* cpulimit.
KeepToken(n) == n

\* defer func() { <-b.cpulimit }()
ReleaseToken(n) == n - 1

\* check.Files has returned: the rest of doTypeCheck, typeCheckImpl and
\* checkPackage, then post and the deferred release of the CPU token.  The
\* post of TypeCheck memoizes the package; the post of a caller that passes a
\* pre function puts the package in the caller's slot i.
CheckPackage(t) ==
    /\ ~panicked /\ t.kind = "syntax" /\ t.pc = "checker"
    /\ cpulimit' = [cpulimit EXCEPT ![t.b] = ReleaseToken(@)]
    /\ IF CheckCancelled(t.b)
       THEN /\ FinishProducer(t, NilPkg, "cancelled")
            /\ UNCHANGED <<activePackages, pendingPut, calls, nPost>>
       ELSE LET pkg == Pkg(t.b, t.id, "syntax", nCheck[t.b][t.id])
                act == MemoizeActivePackage(t.id, pkg)
                slot == calls[t.b].indexes[t.i]
            IN /\ FinishProducer(t, pkg, "")
               /\ pendingPut' = pendingPut \cup PutGoroutine(t.id, "full")
               /\ IF pre[t.b].set
                  THEN /\ calls' = [calls EXCEPT ![t.b].pkgs[t.i] = pkg]
                       /\ UNCHANGED activePackages
                  ELSE /\ activePackages' = act
                       /\ calls' = [calls EXCEPT ![t.b].pkgs[slot] = PostPkg(act[t.id], pkg)]
               /\ nPost' = [nPost EXCEPT ![t.b][t.id] = @ + 1]
    /\ UNCHANGED <<world, packages, cache, importGraphDone, importGraph, resolver,
                   started, syntaxIndex, fsets, nCheck, nImport, ctxDone, panicked>>

\* ------------------------------------------------------- getImportPackage

\* A batch that never finds an import future installed.
ImportNeverInstalled(b, id) == FALSE

\* f, ok := b.importPackages[id]
ImportInstalled(b, id) == importPackages[b][id].st # "none"

\* The first critical section: wait on the installed future, or install one
\* and, for a requested id, call handleSyntaxPackage.
GetImportPackage(t) ==
    /\ ~panicked /\ t.kind = "import" /\ t.pc = "start"
    /\ IF ImportInstalled(t.b, t.id)
       THEN /\ tasks' = (tasks \ {t}) \cup {[t EXCEPT !.pc = "wait"]}
            /\ UNCHANGED importPackages
       ELSE /\ importPackages' = [importPackages EXCEPT ![t.b][t.id] = Pending]
            /\ IF syntaxIndex[t.b][t.id] # 0
               THEN tasks' = (tasks \ {t}) \cup
                        {[t EXCEPT !.pc = "delegated", !.held = cache[t.id]],
                         Frame(t.b, "syntax", t.id, syntaxIndex[t.b][t.id], "import", t.id)}
               ELSE tasks' = (tasks \ {t}) \cup {[t EXCEPT !.pc = "build", !.held = cache[t.id]]}
    /\ UNCHANGED <<world, snap, started, syntaxIndex, fsets, syntaxPackages, cpulimit, gErr,
                   counters, calls, ctxDone, panicked>>

\* select: case <-f.done
ImportWaitDone(t) ==
    /\ ~panicked /\ t.kind = "import" /\ t.pc = "wait"
    /\ importPackages[t.b][t.id].st = "done"
    /\ FinishWaiter(t, importPackages[t.b][t.id].pkg, importPackages[t.b][t.id].err)
    /\ UNCHANGED <<world, snap, started, syntaxIndex, fsets, cpulimit, counters, calls, ctxDone,
                   panicked>>

\* select: case <-ctx.Done()
ImportWaitCancelled(t) ==
    /\ ~panicked /\ t.kind = "import" /\ t.pc = "wait"
    /\ Ctx(t.b)
    /\ FinishWaiter(t, NilPkg, "cancelled")
    /\ UNCHANGED <<world, snap, started, syntaxIndex, fsets, cpulimit, counters, calls, ctxDone,
                   panicked>>

\* A getImportPackage that returns whatever handleSyntaxPackage returned.
DelegateAlwaysReturns(u) == TRUE

\* if pkg != nil { return pkg.pkg.types, nil }
DelegateReturns(u) == u.pkg # NilPkg

\* handleSyntaxPackage has returned to getImportPackage: its error or its
\* package is returned; with neither ("type-checking was short-circuited by
\* the pre- func") getImportPackage goes on to the import-only build.
ImportDelegated(t) ==
    /\ ~panicked /\ t.kind = "import" /\ t.pc = "delegated"
    /\ \E u \in ChildFrames(t) :
        /\ u.kind = "syntax" /\ u.pc = "done"
        /\ IF u.err # "" THEN FinishProducer(t, NilPkg, u.err)
           ELSE IF DelegateReturns(u) THEN FinishProducer(t, u.pkg, "")
           ELSE /\ tasks' = (tasks \ {t}) \cup {[t EXCEPT !.pc = "build"]}
                /\ UNCHANGED <<syntaxPackages, importPackages, gErr>>
    /\ UNCHANGED <<world, snap, started, syntaxIndex, fsets, cpulimit, counters, calls, ctxDone,
                   panicked>>

\* The importer of the stripped check, or the getPackage resolver of the
\* shallow import, calls getImportPackage for the next package.
ImporterCall(t) ==
    /\ ~panicked /\ t.kind = "import" /\ t.pc = "loop" /\ t.todo # <<>>
    /\ tasks' = (tasks \ {t}) \cup
            {[t EXCEPT !.pc = "call"], Frame(t.b, "import", Head(t.todo), 0, "import", t.id)}
    /\ UNCHANGED <<world, snap, started, syntaxIndex, fsets, syntaxPackages, importPackages,
                   cpulimit, gErr, counters, calls, ctxDone, panicked>>

ImporterReturn(t) ==
    /\ ~panicked /\ t.kind = "import" /\ t.pc = "call"
    /\ \E u \in ChildFrames(t) :
        /\ u.kind = "import" /\ u.id = Head(t.todo) /\ u.pc = "done"
        /\ tasks' = (tasks \ {t}) \cup
                {[t EXCEPT !.pc = "loop", !.todo = Tail(t.todo),
                           !.failed = t.failed \/ u.err # ""]}
    /\ UNCHANGED <<world, snap, started, syntaxIndex, fsets, syntaxPackages, importPackages,
                   cpulimit, gErr, counters, calls, ctxDone, panicked>>

\* A checkPackageForImport that does not look at the context after
\* check.Files.
ImportNeverCancelled(b) == FALSE

\* checkPackageForImport after check.Files: if ctx.Err() != nil
ImportCancelled(b) == Ctx(b)

\* check.Files (checkPackageForImport) or IImportShallow (importPackage) has
\* returned.
ImportBuilt(t) ==
    /\ ~panicked /\ t.kind = "import" /\ t.pc = "loop" /\ t.todo = <<>>
    /\ IF t.mode = "stripped"
       THEN /\ fsets' = ParseFiles(t.b, t.id)
            /\ IF ImportCancelled(t.b)
               THEN FinishProducer(t, NilPkg, "cancelled") /\ UNCHANGED pendingPut
               ELSE /\ FinishProducer(t, Pkg(t.b, t.id, "stripped", nImport[t.b][t.id]), "")
                    /\ pendingPut' = pendingPut \cup PutGoroutine(t.id, "stripped")
       ELSE /\ UNCHANGED pendingPut
            /\ IF t.failed THEN FinishProducer(t, NilPkg, "decode") /\ UNCHANGED fsets
               ELSE /\ FinishProducer(t, Pkg(t.b, t.id, "export", nImport[t.b][t.id]), "")
                    /\ fsets' = ParseFiles(t.b, t.id)
    /\ UNCHANGED <<world, packages, activePackages, cache, importGraphDone, importGraph,
                   resolver, started, syntaxIndex, cpulimit, counters, calls, ctxDone,
                   panicked>>

\* ------------------------------------------------- TypeCheck, forEachPackage

\* forEachPackageInternal up to g.Wait(): the batch, its futures taken from
\* the import graph, and one goroutine per requested package.
ForEachPackageInternal(b, graph, importIDs, syntaxIDs) ==
    /\ started' = started \cup {b}
    /\ fsets' = IF graph.ok
                THEN [fsets EXCEPT ![CloneFileSet(b, graph.fset)] = fsets[graph.fset]]
                ELSE [fsets EXCEPT ![b] = {}]
    /\ importPackages' = [importPackages EXCEPT ![b] =
            IF graph.ok THEN graph.imports ELSE [id \in PackageIDs |-> NoFuture]]
    /\ syntaxIndex' = [syntaxIndex EXCEPT ![b] = SyntaxIndexOf(syntaxIDs)]
    /\ tasks' = tasks
            \cup {Frame(b, "import", id, 0, "top", "") : id \in importIDs}
            \cup {Frame(b, "syntax", syntaxIDs[k], k, "top", "") : k \in 1..Len(syntaxIDs)}

\* A forEachPackage without the test for an empty request.
NoShortCut(ids) == FALSE

\* forEachPackage: if len(ids) == 0 { return nil }
ShortCut(ids) == ids = <<>>

\* A wait that returns as soon as one goroutine has failed.
WaitFirstError(b) == (\A t \in TopFrames(b) : t.pc = "done") \/ gErr[b] # ""

\* g.Wait() of forEachPackageInternal returns once every goroutine has.
GroupWait(b) == \A t \in TopFrames(b) : t.pc = "done"

\* A getImportGraph that starts a resolver until one has finished.
LatchNotClosed == importGraphDone # "closed"

\* getImportGraph: if done == nil
LatchUnstarted == importGraphDone = "nil"

\* TypeCheck up to the select of getImportGraph: the active packages are
\* looked up, and with ids left to check the import graph latch is taken.
TypeCheck(c) ==
    /\ ~panicked /\ calls[c].pc = "idle" /\ ~pre[c].set
    /\ LET ids == requests[c]
           need == NeedIndexes(ids)
       IN /\ calls' = [calls EXCEPT ![c] =
                [pc |-> IF ShortCut(need) THEN "returned" ELSE "latch",
                 pkgs |-> [k \in 1..Len(ids) |->
                            IF IsActive(ids[k]) THEN activePackages[ids[k]] ELSE NilPkg],
                 indexes |-> need,
                 err |-> "",
                 after |-> {d \in Calls : calls[d].pc = "returned"},
                 cut |-> {},
                 graph |-> FALSE]]
          /\ IF ~ShortCut(need) /\ LatchUnstarted
             THEN importGraphDone' = "open" /\ resolver' = "start"
             ELSE UNCHANGED <<importGraphDone, resolver>>
    /\ UNCHANGED <<world, packages, activePackages, cache, pendingPut, importGraph, batch,
                   counters, ctxDone, panicked>>

\* forEachPackage called with a pre function, up to the select of
\* getImportGraph.
ForEachPackage(c) ==
    /\ ~panicked /\ calls[c].pc = "idle" /\ pre[c].set
    /\ LET ids == requests[c]
       IN /\ calls' = [calls EXCEPT ![c] =
                [pc |-> IF ShortCut(ids) THEN "returned" ELSE "latch",
                 pkgs |-> [k \in 1..Len(ids) |-> NilPkg],
                 indexes |-> [k \in 1..Len(ids) |-> k],
                 err |-> "",
                 after |-> {d \in Calls : calls[d].pc = "returned"},
                 cut |-> {},
                 graph |-> FALSE]]
          /\ IF ~ShortCut(ids) /\ LatchUnstarted
             THEN importGraphDone' = "open" /\ resolver' = "start"
             ELSE UNCHANGED <<importGraphDone, resolver>>
    /\ UNCHANGED <<world, packages, activePackages, cache, pendingPut, importGraph, batch,
                   counters, ctxDone, panicked>>

NeedIDs(c) == [k \in 1..Len(calls[c].indexes) |-> requests[c][calls[c].indexes[k]]]

\* A getImportGraph that returns s.importGraph without waiting for done.
DoneNotAwaited == TRUE

\* select: case <-done
DoneClosed == importGraphDone = "closed"

\* getImportGraph: case <-done
GetImportGraph(c) ==
    /\ ~panicked /\ calls[c].pc = "latch"
    /\ DoneClosed
    /\ ForEachPackageInternal(c, importGraph, {}, NeedIDs(c))
    /\ calls' = [calls EXCEPT ![c].pc = "wait", ![c].graph = importGraph.ok]
    /\ UNCHANGED <<world, snap, syntaxPackages, cpulimit, gErr, counters, ctxDone, panicked>>

\* getImportGraph: case <-ctx.Done()
GetImportGraphCancelled(c) ==
    /\ ~panicked /\ calls[c].pc = "latch"
    /\ ctxDone[c]
    /\ ForEachPackageInternal(c, NoGraph, {}, NeedIDs(c))
    /\ calls' = [calls EXCEPT ![c].pc = "wait"]
    /\ UNCHANGED <<world, snap, syntaxPackages, cpulimit, gErr, counters, ctxDone, panicked>>

\* g.Wait() returns in forEachPackageInternal; TypeCheck returns.
TypeCheckReturn(c) ==
    /\ ~panicked /\ calls[c].pc = "wait"
    /\ GroupWait(c)
    /\ calls' = [calls EXCEPT ![c].pc = "returned", ![c].err = gErr[c]]
    /\ UNCHANGED <<world, snap, batch, counters, ctxDone, panicked>>

\* The caller of request c cancels its context.  cut records the packages
\* that are inside check.Files of a full type check at that moment.
Cancel(c) ==
    /\ ~panicked /\ c \in cancellable /\ ~ctxDone[c]
    /\ calls[c].pc \in {"latch", "wait"}
    /\ ctxDone' = [ctxDone EXCEPT ![c] = TRUE]
    /\ calls' = [calls EXCEPT ![c].cut =
            {t.id : t \in {u \in tasks : u.b = c /\ u.kind = "syntax" /\ u.pc = "checker"}}]
    /\ UNCHANGED <<world, snap, batch, counters, panicked>>

\* ---------------------------------------------------- resolveImportGraph

\* resolveImportGraph up to the reuse of the last graph or the start of the
\* import-only batch.
ResolveImportGraph ==
    /\ ~panicked /\ resolver = "start"
    /\ packages' = Store(UNION {StoredBy(d, FALSE) : d \in UNION {meta[o].deps : o \in overlays}})
    /\ IF Unchanged(importGraph, DepsMap)
       THEN /\ resolver' = "done"
            /\ importGraphDone' = "closed"
            /\ UNCHANGED <<importGraph, batch>>
       ELSE /\ resolver' = "batch"
            /\ ForEachPackageInternal(0, NoGraph, GraphDeps, <<>>)
            /\ UNCHANGED <<importGraph, importGraphDone, syntaxPackages, cpulimit, gErr>>
    /\ UNCHANGED <<world, activePackages, cache, pendingPut, counters, calls, ctxDone,
                   panicked>>

\* if fut.v.pkg == nil && fut.v.err == nil, for a future of the map
NotEvaluated(f) == f.st # "none" /\ f.pkg = NilPkg /\ f.err = ""

\* The import-only batch has returned: resolveImportGraph panics on a future
\* that is not evaluated; otherwise the graph is published and done closed.
ImportGraphResolved ==
    /\ ~panicked /\ resolver = "batch"
    /\ GroupWait(0)
    /\ IF gErr[0] = "" /\ \E id \in PackageIDs : NotEvaluated(importPackages[0][id])
       THEN /\ panicked' = TRUE
            /\ UNCHANGED <<importGraph, importGraphDone, resolver>>
       ELSE /\ importGraph' = IF gErr[0] # "" THEN NoGraph
                   ELSE [ok |-> TRUE, fset |-> FsetOf(0), deps |-> DepsMap,
                         imports |-> importPackages[0]]
            /\ importGraphDone' = "closed"
            /\ resolver' = "done"
            /\ UNCHANGED panicked
    /\ UNCHANGED <<world, packages, activePackages, cache, pendingPut, batch, counters,
                   calls, ctxDone>>

\* ---------------------------------------------------------------- filecache

\* Every request has returned and no resolver is running.
Quiescent ==
    /\ \A c \in Calls : calls[c].pc = "returned"
    /\ resolver \in {"idle", "done"}

\* A goroutine started after a check runs.  IExportShallow may fail: after a
\* stripped check the goroutine then returns, after a full check it still
\* stores the other kinds of data.  filecache.Set may fail.  The store is
\* observable only through a later filecache.Get of the same key, so the
\* goroutine is scheduled when a getImportPackage of that package is about
\* to read the cache, or when every request has returned.
CachePut(id) ==
    /\ ~panicked
    /\ \/ \E t \in tasks : t.kind = "import" /\ t.id = id /\ t.pc \in {"build", "insert"}
       \/ Quiescent
    /\ \E p \in pendingPut :
        /\ p.id = id /\ p.st = "go"
        /\ \E exported, stored \in BOOLEAN :
            /\ pendingPut' = (pendingPut \ {p}) \cup
                    {[p EXCEPT !.st = IF exported \/ p.kind = "full" THEN "put"
                                      ELSE "noexport"]}
            /\ cache' = IF exported /\ stored /\ cache[id] # "err"
                        THEN [cache EXCEPT ![id] = "ok"] ELSE cache
    /\ UNCHANGED <<world, packages, activePackages, importGraphDone, importGraph, resolver,
                   batch, counters, calls, ctxDone, panicked>>

\* ------------------------------------------------------------ specification

\* Metadata graphs.  M never has metadata, D only in the diamond.
Graph(a, b, c) ==
    [p \in PackageIDs |-> CASE p = "A" -> a [] p = "B" -> b [] p = "C" -> c [] OTHER -> NoMeta]

\* A imports B and C, B imports C.
G0 == Graph(Meta({"B", "C"}, 1), Meta({"C"}, 1), Meta({}, 1))
\* A imports B and C, C imports B.
G1 == Graph(Meta({"B", "C"}, 1), Meta({}, 1), Meta({"B"}, 1))
\* A imports B.
G2 == Graph(Meta({"B"}, 1), Meta({}, 1), Meta({}, 1))
\* A imports B, B imports C.
GL == Graph(Meta({"B"}, 1), Meta({"C"}, 1), Meta({}, 1))
\* A imports B and the missing M.
GM == Graph(Meta({"B", "M"}, 1), Meta({}, 1), Meta({}, 1))
\* A imports B, B imports the missing M.
GN == Graph(Meta({"B"}, 1), Meta({"M"}, 1), Meta({}, 1))
\* The diamond: D imports B and C, which both import A.
GD == [Graph(Meta({}, 1), Meta({"A"}, 1), Meta({"A"}, 1)) EXCEPT !["D"] = Meta({"B", "C"}, 1)]
\* A has no compiled files.
GF == Graph(Meta({"B"}, 0), Meta({}, 1), Meta({}, 1))

NoCache == [p \in PackageIDs |-> "none"]
Cache(b, c) == [p \in PackageIDs |-> CASE p = "B" -> b [] p = "C" -> c [] OTHER -> "none"]

Scenario(m, o, u, r, k, ch) ==
    [meta |-> m, overlays |-> o, unreadable |-> u, requests |-> r, cancellable |-> k,
     cache |-> ch, pre |-> <<>>, last |-> "none"]

\* The scenario in a snapshot that carries over an import graph.
WithLast(s, kind) == [s EXCEPT !.last = kind]

\* The scenario whose requests are calls of forEachPackage with the pre
\* functions p.
WithPre(s, p) == [s EXCEPT !.pre = p]

Scenarios == {
    \* the diamond, its top requested
    Scenario(GD, {}, {}, <<<<"D">>>>, {}, NoCache),
    \* two requested packages, one importing the other; the context may be cancelled
    Scenario(G1, {}, {}, <<<<"A", "B">>>>, {1}, NoCache),
    \* the same two packages requested twice; the first request may be cancelled
    Scenario(G2, {}, {}, <<<<"A", "B">>, <<"A", "B">>>>, {1}, NoCache),
    \* the same id requested twice in one call
    Scenario(G0, {}, {}, <<<<"A", "A">>>>, {}, NoCache),
    \* two requests for the same package, racing or in sequence; the first may be cancelled
    Scenario(G2, {}, {}, <<<<"A">>, <<"A">>>>, {1}, NoCache),
    \* an open package: the import graph holds B and C
    Scenario(G1, {"A"}, {}, <<<<"A", "B">>>>, {1}, NoCache),
    \* a requested package and a dependency without metadata
    Scenario(GM, {}, {}, <<<<"M", "A">>>>, {}, NoCache),
    \* a requested package that is also a dependency cannot be read
    Scenario(G0, {}, {"B"}, <<<<"A", "B">>>>, {1}, NoCache),
    \* a requested package without compiled files
    Scenario(GF, {}, {}, <<<<"A", "B">>>>, {1}, NoCache),
    \* export data in the cache: valid; undecodable; unreadable
    Scenario(G0, {}, {}, <<<<"A">>>>, {1}, Cache("ok", "ok")),
    Scenario(G0, {}, {}, <<<<"A">>>>, {}, Cache("bad", "err")),
    Scenario(G0, {}, {}, <<<<"A">>>>, {}, Cache("ok", "none")),
    \* export data in the cache for a package that imports a missing one
    Scenario(GN, {}, {}, <<<<"A">>>>, {}, Cache("ok", "none")),
    \* forEachPackage with a pre function that skips B, which A imports
    WithPre(Scenario(G2, {}, {}, <<<<"A", "B">>>>, {}, NoCache), <<PreFunc({"B"})>>),
    \* export data in the cache for a requested package
    Scenario(G2, {}, {}, <<<<"A", "B">>>>, {}, Cache("ok", "none")),
    \* an open package requested twice: the import graph holds B
    Scenario(G2, {"A"}, {}, <<<<"A">>, <<"A">>>>, {1}, NoCache),
    \* two requests for a package that imports an open one: the import graph
    \* holds C, and each batch imports B itself
    Scenario(GL, {"B"}, {}, <<<<"A">>, <<"A">>>>, {}, NoCache),
    \* an import graph carried over from the preceding snapshot
    WithLast(Scenario(G2, {"A"}, {}, <<<<"A">>>>, {}, NoCache), "same"),
    WithLast(Scenario(G2, {"A"}, {}, <<<<"A">>>>, {}, NoCache), "stale"),
    WithLast(Scenario(G2, {"A"}, {}, <<<<"A">>>>, {}, NoCache), "other"),
    WithLast(Scenario(G2, {"A"}, {}, <<<<"A">>>>, {}, NoCache), "empty"),
    \* an open package without dependencies: deps is empty
    WithLast(Scenario(G2, {"B"}, {}, <<<<"B">>>>, {}, NoCache), "same"),
    \* the export data of the only package of the import graph cannot be read
    Scenario(G2, {"A"}, {}, <<<<"A">>>>, {}, Cache("err", "none"))
}

IdleCall == [pc |-> "idle", pkgs |-> <<>>, indexes |-> <<>>, err |-> "", after |-> {},
             cut |-> {}, graph |-> FALSE]

InitWith(S) ==
    /\ \E s \in S :
        /\ meta = s.meta
        /\ overlays = s.overlays
        /\ unreadable = s.unreadable
        /\ requests = [c \in Calls |-> IF c <= Len(s.requests) THEN s.requests[c] ELSE <<>>]
        /\ cancellable = s.cancellable
        /\ pre = [c \in Calls |-> IF c <= Len(s.pre) THEN s.pre[c] ELSE NilPre]
        /\ cache = s.cache
        /\ importGraph = LastGraph(s.last)
    /\ packages = [p \in PackageIDs |-> NoHandle]
    /\ activePackages = [p \in PackageIDs |-> NilPkg]
    /\ pendingPut = {}
    /\ importGraphDone = "nil"
    /\ resolver = "idle"
    /\ calls = [c \in Calls |-> IdleCall]
    /\ ctxDone = [c \in Calls |-> FALSE]
    /\ started = {}
    /\ syntaxIndex = [b \in Batches |-> [p \in PackageIDs |-> 0]]
    /\ fsets = [r \in FileSets |->
            IF r = LastFileSet /\ importGraph.ok THEN DOMAIN importGraph.deps ELSE {}]
    /\ syntaxPackages = [b \in Batches |-> [p \in PackageIDs |-> NoFuture]]
    /\ importPackages = [b \in Batches |-> [p \in PackageIDs |-> NoFuture]]
    /\ cpulimit = [b \in Batches |-> 0]
    /\ gErr = [b \in Batches |-> ""]
    /\ tasks = {}
    /\ nCheck = [b \in Batches |-> [p \in PackageIDs |-> 0]]
    /\ nImport = [b \in Batches |-> [p \in PackageIDs |-> 0]]
    /\ nPost = [b \in Batches |-> [p \in PackageIDs |-> 0]]
    /\ panicked = FALSE
    /\ walk = NoWalk
    /\ resolve = NoResolve
    /\ builders = NoBuilders
    /\ pure = NoPure

Init == InitWith(Scenarios)

Next ==
    \/ \E c \in Calls : TypeCheck(c)
    \/ \E c \in Calls : ForEachPackage(c)
    \/ \E c \in Calls : GetImportGraph(c)
    \/ \E c \in Calls : GetImportGraphCancelled(c)
    \/ \E c \in Calls : TypeCheckReturn(c)
    \/ \E c \in Calls : Cancel(c)
    \/ ResolveImportGraph
    \/ ImportGraphResolved
    \/ \E id \in PackageIDs : CachePut(id)
    \/ \E t \in tasks : BuildHandle(t)
    \/ \E t \in tasks : InsertHandle(t)
    \/ \E t \in tasks : HandleSyntaxPackage(t)
    \/ \E t \in tasks : SyntaxWaitDone(t)
    \/ \E t \in tasks : AwaitPredecessors(t)
    \/ \E t \in tasks : AcquireCancelled(t)
    \/ \E t \in tasks : AcquireToken(t)
    \/ \E t \in tasks : CheckPackage(t)
    \/ \E t \in tasks : GetImportPackage(t)
    \/ \E t \in tasks : ImportWaitDone(t)
    \/ \E t \in tasks : ImportWaitCancelled(t)
    \/ \E t \in tasks : ImportDelegated(t)
    \/ \E t \in tasks : ImporterCall(t)
    \/ \E t \in tasks : ImporterReturn(t)
    \/ \E t \in tasks : ImportBuilt(t)

Spec == Init /\ [][Next]_vars

\* The requests checked for termination: one call at a time, with an open
\* package only under a context that stays live, and two packages that take
\* the CPU token in turn under a context that stays live.
LiveScenarios ==
    {s \in Scenarios : Len(s.requests) = 1 /\ (s.overlays = {} \/ s.cancellable = {})}
        \cup {Scenario(G2, {}, {}, <<<<"A", "B">>>>, {}, NoCache)}

\* The Go scheduler runs a goroutine that can take a step.
FairSpec == InitWith(LiveScenarios) /\ [][Next]_vars /\ WF_vars(Next)

\* ------------------------------------------------- recursion over metadata

\* The recursive functions of the core that follow DepsByPkgPath, one call
\* frame per step: buildPackageHandle with typeCheckInputs ("build"),
\* populateDeps of importMap ("importMap") and isVolatile of
\* resolveImportGraph ("volatile").  stack holds the active calls, innermost
\* last; todo is what is left of the loop over DepsByPkgPath; seen is impMap
\* or the keys of volatileDeps, vol the keys of volatileDeps that map to true.
WalkFns == {"build", "importMap", "volatile"}

WalkIDs == {"A", "B", "C"}

WalkFrame(fn, id) ==
    [id |-> id,
     todo |-> IF fn = "volatile" /\ id \in overlays THEN <<>> ELSE InOrder(meta[id].deps),
     res |-> fn = "volatile" /\ id \in overlays]

\* Whether the call on d returns at once, without reaching its loop.
WalkSkips(fn, d) ==
    CASE fn = "build" -> ~meta[d].ok \/ packages[d] # NoHandle
      [] fn = "importMap" -> d \in walk.seen
      [] OTHER -> d \in walk.seen

\* The outermost call.
WalkStart ==
    /\ walk.fn = "none"
    /\ \E fn \in WalkFns, id \in WalkIDs :
        /\ meta[id].ok
        /\ walk' = [fn |-> fn, stack |-> <<WalkFrame(fn, id)>>, seen |-> {}, vol |-> {}]
    /\ UNCHANGED <<given, resolve, builders, pure, snap, batch, counters, calls, ctxDone, panicked>>

\* The innermost call takes the next dependency of its loop and calls itself
\* on it.
WalkCall ==
    /\ walk.fn \in WalkFns /\ walk.stack # <<>>
    /\ LET n == Len(walk.stack)
           top == walk.stack[n]
       IN /\ top.todo # <<>>
          /\ LET d == Head(top.todo)
                 found == walk.fn = "volatile" /\ d \in walk.vol
                 rest == [top EXCEPT !.todo = IF found THEN <<>> ELSE Tail(top.todo),
                                     !.res = top.res \/ found]
             IN IF WalkSkips(walk.fn, d)
                THEN walk' = [walk EXCEPT !.stack[n] = rest]
                ELSE /\ n < MaxDepth
                     /\ walk' = [walk EXCEPT
                            !.stack = Append([walk.stack EXCEPT ![n] = rest],
                                             WalkFrame(walk.fn, d)),
                            !.seen = IF walk.fn = "importMap" THEN @ \cup {d} ELSE @]
    /\ UNCHANGED <<given, resolve, builders, pure, snap, batch, counters, calls, ctxDone, panicked>>

\* The innermost call returns: buildPackageHandle stores its handle,
\* isVolatile records its result and a true result ends the caller's loop.
WalkReturn ==
    /\ walk.fn \in WalkFns /\ walk.stack # <<>>
    /\ LET n == Len(walk.stack)
           top == walk.stack[n]
           below == SubSeq(walk.stack, 1, n - 1)
           hit == walk.fn = "volatile" /\ top.res
       IN /\ top.todo = <<>>
          /\ walk' = [fn |-> IF n = 1 THEN "done" ELSE walk.fn,
                      stack |-> IF n > 1 /\ hit
                                THEN [below EXCEPT ![n - 1].todo = <<>>, ![n - 1].res = TRUE]
                                ELSE below,
                      seen |-> IF walk.fn = "volatile" THEN walk.seen \cup {top.id}
                               ELSE walk.seen,
                      vol |-> IF hit THEN walk.vol \cup {top.id} ELSE walk.vol]
          /\ packages' = IF walk.fn = "build" THEN Store({top.id}) ELSE packages
    /\ UNCHANGED <<given, resolve, builders, pure, activePackages, cache, pendingPut, importGraphDone,
                   importGraph, resolver, batch, counters, calls, ctxDone, panicked>>

\* Metadata graphs over A, B and C in which every package may import the
\* others, cycles included.
WalkGraphs ==
    {Graph(Meta(a, 1), Meta(b, 1), Meta(c, 1)) :
        a \in SUBSET {"B", "C"}, b \in SUBSET {"A", "C"}, c \in SUBSET {"A", "B"}}

WalkScenarios ==
    {Scenario(m, o, {}, <<>>, {}, NoCache) : m \in WalkGraphs, o \in {{}, {"C"}}}

WalkNext == WalkStart \/ WalkCall \/ WalkReturn

WalkSpec == InitWith(WalkScenarios) /\ [][WalkNext]_vars

\* ------------------------------------------- deps of resolveImportGraph

\* The computation of deps in resolveImportGraph, one loop iteration or one
\* call of isVolatile per step; every range over a map takes its elements in
\* any order.  open is what is left of the range over openPackages, todo
\* what is left of DepsByPkgPath of the current open package, deps the map
\* from id to handle key, roots what is left of the range over deps, stack
\* the active calls of isVolatile, seen the keys of volatileDeps and vol its
\* keys that map to true.

\* An isVolatile that does not follow the dependencies.
VolatileOpenOnly(id) == {}

\* m := meta.metadata[id]; if m != nil { for _, dep := range m.DepsByPkgPath
VolatileLoop(id) == IF meta[id].ok THEN meta[id].deps ELSE {}

\* A call of isVolatile(id) that found no entry in volatileDeps.
VolatileFrame(id) ==
    IF id \in overlays
    THEN [id |-> id, todo |-> {}, res |-> TRUE]
    ELSE [id |-> id, todo |-> VolatileLoop(id), res |-> FALSE]

\* openPackages has been collected from the overlays.
ResolveStart ==
    /\ resolve.pc = "idle"
    /\ resolve' = [resolve EXCEPT !.pc = "open", !.open = overlays]
    /\ UNCHANGED <<given, walk, builders, pure, snap, batch, counters, calls, ctxDone, panicked>>

\* for id := range openPackages
ResolveOpen ==
    /\ resolve.pc = "open"
    /\ IF resolve.open = {}
       THEN resolve' = [resolve EXCEPT !.pc = "volatile", !.roots = DOMAIN resolve.deps]
       ELSE \E id \in resolve.open :
                resolve' = [resolve EXCEPT !.pc = "deps", !.open = @ \ {id},
                                           !.todo = meta[id].deps]
    /\ UNCHANGED <<given, walk, builders, pure, snap, batch, counters, calls, ctxDone, panicked>>

\* for _, id := range m.DepsByPkgPath: a dependency not yet in deps is
\* entered with the key of its handle, unless the handle cannot be built.
ResolveDep ==
    /\ resolve.pc = "deps"
    /\ IF resolve.todo = {}
       THEN resolve' = [resolve EXCEPT !.pc = "open"] /\ UNCHANGED packages
       ELSE \E d \in resolve.todo :
                IF d \in DOMAIN resolve.deps
                THEN resolve' = [resolve EXCEPT !.todo = @ \ {d}] /\ UNCHANGED packages
                ELSE /\ packages' = Store(StoredBy(d, FALSE))
                     /\ resolve' = [resolve EXCEPT
                            !.todo = @ \ {d},
                            !.deps = IF BuildErr(d, FALSE) # "" THEN @
                                     ELSE [x \in DOMAIN @ \cup {d} |->
                                            IF x = d THEN ComputePackageKey(d) ELSE @[x]]]
    /\ UNCHANGED <<given, walk, builders, pure, activePackages, cache, pendingPut, importGraphDone,
                   importGraph, resolver, batch, counters, calls, ctxDone, panicked>>

\* for dep := range deps { isVolatile(dep) }
ResolveVolatile ==
    /\ resolve.pc = "volatile" /\ resolve.stack = <<>>
    /\ IF resolve.roots = {}
       THEN resolve' = [resolve EXCEPT !.pc = "delete"]
       ELSE \E r \in resolve.roots :
                resolve' = [resolve EXCEPT
                    !.roots = @ \ {r},
                    !.stack = IF r \in resolve.seen THEN @ ELSE <<VolatileFrame(r)>>]
    /\ UNCHANGED <<given, walk, builders, pure, snap, batch, counters, calls, ctxDone, panicked>>

\* The innermost isVolatile takes a dependency of its loop: the entry of
\* volatileDeps if there is one, a call of isVolatile if not.
VolatileCall ==
    /\ resolve.pc = "volatile" /\ resolve.stack # <<>>
    /\ LET n == Len(resolve.stack)
           top == resolve.stack[n]
       IN /\ ~top.res
          /\ \E d \in top.todo :
                LET rest == [top EXCEPT !.todo = @ \ {d}]
                IN IF d \in resolve.seen
                   THEN resolve' = [resolve EXCEPT
                            !.stack[n] = [rest EXCEPT !.res = d \in resolve.vol]]
                   ELSE resolve' = [resolve EXCEPT
                            !.stack = Append([@ EXCEPT ![n] = rest], VolatileFrame(d))]
    /\ UNCHANGED <<given, walk, builders, pure, snap, batch, counters, calls, ctxDone, panicked>>

\* The innermost isVolatile returns, true as soon as a dependency is
\* volatile and false at the end of its loop; the deferred function enters
\* the result in volatileDeps.
VolatileReturn ==
    /\ resolve.pc = "volatile" /\ resolve.stack # <<>>
    /\ LET n == Len(resolve.stack)
           top == resolve.stack[n]
           below == SubSeq(resolve.stack, 1, n - 1)
       IN /\ top.res \/ top.todo = {}
          /\ resolve' = [resolve EXCEPT
                !.stack = IF n > 1 THEN [below EXCEPT ![n - 1].res = top.res] ELSE below,
                !.seen = @ \cup {top.id},
                !.vol = IF top.res THEN @ \cup {top.id} ELSE @]
    /\ UNCHANGED <<given, walk, builders, pure, snap, batch, counters, calls, ctxDone, panicked>>

\* for id, volatile := range volatileDeps { if volatile { delete(deps, id) } }
ResolveDelete ==
    /\ resolve.pc = "delete"
    /\ resolve' = [resolve EXCEPT
            !.pc = "done",
            !.deps = [x \in DOMAIN @ \ resolve.vol |-> @[x]]]
    /\ UNCHANGED <<given, walk, builders, pure, snap, batch, counters, calls, ctxDone, panicked>>

\* Whether the metadata graph g has no dependency cycle.
Acyclic(g) ==
    ~\E S \in SUBSET PackageIDs : S # {} /\ \A p \in S : g[p].deps \cap S # {}

\* The acyclic metadata graphs over A, B and C; A may import M, which has
\* no metadata.
DepsGraphs ==
    {g \in {Graph(Meta(a, 1), Meta(b, 1), Meta(c, 1)) :
                a \in SUBSET {"B", "C", "M"}, b \in SUBSET {"A", "C"},
                c \in SUBSET {"A", "B"}} : Acyclic(g)}

\* Every acyclic graph with every set of open packages; the files of C may
\* be unreadable.
DepsScenarios ==
    {Scenario(m, o, u, <<>>, {}, NoCache) :
        m \in DepsGraphs, o \in SUBSET {"A", "B", "C"}, u \in {{}, {"C"}}}

DepsNext ==
    \/ ResolveStart
    \/ ResolveOpen
    \/ ResolveDep
    \/ ResolveVolatile
    \/ VolatileCall
    \/ VolatileReturn
    \/ ResolveDelete

DepsSpec == InitWith(DepsScenarios) /\ [][DepsNext]_vars

\* ------------------------------------------ concurrent buildPackageHandle

\* Goroutines that call buildPackageHandle(id) at once, one critical section
\* or one loop iteration per step.  stack holds the active calls of a
\* goroutine, innermost last: typeCheckInputs calls buildPackageHandle for
\* every dependency.  A handle carries the goroutine that created it.  got
\* records every (id, handle) that a call has returned.
Builders == 1..NumBuilders

HandleFrame(id) == [id |-> id, pc |-> "get", todo |-> {}, deps |-> {}, m |-> NoMeta]

NewHandleBy(g, f) == [id |-> f.id, deps |-> f.deps, by |-> g, m |-> f.m]

\* The innermost call of goroutine g returns (h, err): its caller, a
\* typeCheckInputs, enters the handle in its deps; on an error it goes on
\* with the next dependency unless its context is cancelled.
HandleReturns(g, h, err) ==
    LET st == builders.run[g].stack
        n == Len(st)
        below == SubSeq(st, 1, n - 1)
    IN builders' =
        [builders EXCEPT
            !.run[g] =
                [pc |-> IF n = 1 THEN "done" ELSE "run",
                 stack |-> IF n = 1 THEN below
                           ELSE IF err = ""
                           THEN [below EXCEPT ![n - 1].deps = @ \cup {st[n].id}]
                           ELSE IF builders.run[g].ctx
                           THEN [below EXCEPT ![n - 1].pc = "abort"]
                           ELSE below,
                 ret |-> [id |-> st[n].id, err |-> err],
                 ctx |-> builders.run[g].ctx],
            !.got = IF err = "" THEN @ \cup {<<st[n].id, h>>} ELSE @]

HandleTop(g) == builders.run[g].stack[Len(builders.run[g].stack)]

HandleStep(g, f) ==
    builders' = [builders EXCEPT !.run[g].stack[Len(builders.run[g].stack)] = f,
                                 !.run[g].ret = NoReturn]

\* A goroutine calls buildPackageHandle(id).
HandleStart(g) ==
    /\ builders.run[g].pc = "idle"
    /\ \E id \in PackageIDs :
        builders' = [builders EXCEPT !.run[g] =
            [pc |-> "run", stack |-> <<HandleFrame(id)>>, ret |-> NoReturn, ctx |-> FALSE]]
    /\ UNCHANGED <<given, walk, resolve, pure, snap, batch, counters, calls, ctxDone, panicked>>

\* A buildPackageHandle that looks at the metadata only when the store has
\* no entry.
NoMetadataUnlessHit(id) == ~meta[id].ok /\ packages[id] = NoHandle

\* if m == nil
NoMetadata(id) == ~meta[id].ok

\* The first critical section: the entry of the store and the metadata.
HandleGet(g) ==
    /\ builders.run[g].pc = "run" /\ HandleTop(g).pc = "get"
    /\ LET f == HandleTop(g)
       IN IF NoMetadata(f.id) THEN HandleReturns(g, NoHandle, "nometadata")
          ELSE IF packages[f.id] # NoHandle THEN HandleReturns(g, packages[f.id], "")
          ELSE HandleStep(g, [f EXCEPT !.pc = "inputs", !.todo = meta[f.id].deps,
                                       !.m = meta[f.id]])
    /\ UNCHANGED <<given, walk, resolve, pure, snap, batch, counters, calls, ctxDone, panicked>>

\* typeCheckInputs: for _, depID := range m.DepsByPkgPath
HandleDep(g) ==
    /\ builders.run[g].pc = "run" /\ HandleTop(g).pc = "inputs"
    /\ \E d \in HandleTop(g).todo :
        builders' = [builders EXCEPT
            !.run[g].stack = Append([@ EXCEPT ![Len(@)].todo = @ \ {d}], HandleFrame(d)),
            !.run[g].ret = NoReturn]
    /\ UNCHANGED <<given, walk, resolve, pure, snap, batch, counters, calls, ctxDone, panicked>>

\* typeCheckInputs: if ctx.Err() != nil { return typeCheckInputs{}, ctx.Err() }
HandleAbort(g) ==
    /\ builders.run[g].pc = "run" /\ HandleTop(g).pc = "abort"
    /\ HandleReturns(g, NoHandle, "cancelled")
    /\ UNCHANGED <<given, walk, resolve, pure, snap, batch, counters, calls, ctxDone, panicked>>

\* The rest of typeCheckInputs: the files are read; the handle is created.
HandleInputs(g) ==
    /\ builders.run[g].pc = "run" /\ HandleTop(g).pc = "inputs"
    /\ HandleTop(g).todo = {}
    /\ IF HandleTop(g).id \in unreadable
       THEN HandleReturns(g, NoHandle, "read")
       ELSE HandleStep(g, [HandleTop(g) EXCEPT !.pc = "insert"])
    /\ UNCHANGED <<given, walk, resolve, pure, snap, batch, counters, calls, ctxDone, panicked>>

\* A buildPackageHandle that does not look at the store again.
NeverStoredFirst(id) == FALSE

\* if prev, ok := s.packages.Get(id); ok
StoredFirst(id) == packages[id] # NoHandle

\* The second critical section: stale metadata is an error; the handle
\* another goroutine stored first is returned, or the new one is stored and
\* returned.
HandleInsert(g) ==
    /\ builders.run[g].pc = "run" /\ HandleTop(g).pc = "insert"
    /\ LET f == HandleTop(g)
           ph == NewHandleBy(g, f)
       IN IF meta[f.id] # f.m
          THEN HandleReturns(g, NoHandle, "stale") /\ UNCHANGED packages
          ELSE IF StoredFirst(f.id)
          THEN /\ IF packages[f.id].m # f.m THEN HandleReturns(g, NoHandle, "mismatch")
                  ELSE HandleReturns(g, packages[f.id], "")
               /\ UNCHANGED packages
          ELSE /\ packages' = [packages EXCEPT ![f.id] = ph]
               /\ HandleReturns(g, ph, "")
    /\ UNCHANGED <<given, walk, resolve, pure, activePackages, cache, pendingPut,
                   importGraphDone, importGraph, resolver, batch, counters, calls, ctxDone,
                   panicked>>

\* The context of the call of goroutine g is cancelled, while
\* typeCheckInputs is in a call for a dependency: the context is looked at
\* nowhere else.
HandleCancel(g) ==
    /\ builders.run[g].pc = "run" /\ ~builders.run[g].ctx
    /\ Len(builders.run[g].stack) > 1
    /\ builders' = [builders EXCEPT !.run[g].ctx = TRUE]
    /\ UNCHANGED <<given, walk, resolve, pure, snap, batch, counters, calls, ctxDone, panicked>>

\* The metadata of a package is dropped from s.meta while calls are under
\* way; the handle store is left as it is.
LoadMetadata ==
    /\ builders.loads < MaxLoads
    /\ \E id \in PackageIDs :
        /\ meta[id].ok
        /\ meta' = [meta EXCEPT ![id] = NoMeta]
    /\ builders' = [builders EXCEPT !.loads = @ + 1]
    /\ UNCHANGED <<overlays, unreadable, requests, cancellable, pre, walk, resolve, pure,
                   snap, batch, counters, calls, ctxDone, panicked>>

\* A imports B and C, B imports C; A imports B and the missing M; the files
\* of C may be unreadable.
HandleScenarios ==
    {Scenario(m, {}, u, <<>>, {}, NoCache) : m \in {G0, GM}, u \in {{}, {"C"}}}

HandleNext ==
    \E g \in Builders :
        \/ HandleStart(g)
        \/ HandleGet(g)
        \/ HandleDep(g)
        \/ HandleInputs(g)
        \/ HandleInsert(g)

HandleSpec == InitWith(HandleScenarios) /\ [][HandleNext]_vars

\* A imports B, whose files may be unreadable; there is no other package.
BuildScenarios ==
    {Scenario(Graph(Meta({"B"}, 1), Meta({}, 1), NoMeta), {}, u, <<>>, {}, NoCache) :
        u \in {{}, {"B"}}}

\* buildPackageHandle with cancellations and changes of the metadata.
BuildNext ==
    \/ HandleNext
    \/ \E g \in Builders : HandleAbort(g)
    \/ \E g \in Builders : HandleCancel(g)
    \/ LoadMetadata

BuildSpec == InitWith(BuildScenarios) /\ [][BuildNext]_vars

\* ------------------------------------------------------ computePackageKey

\* The bytes that computePackageKey writes to the hasher.  A string is the
\* sequence of its characters; a literal of a format is written with its
\* spaces and line ends as characters and the rest as one element; a hash
\* (%s of a key, a file identity) and a number are one element.

\* The order of the characters, as of their bytes.
CharRank(ch) == CASE ch = " " -> 0 [] ch = "a" -> 1 [] ch = "b" -> 2 [] ch = "c" -> 3

RECURSIVE StringLess(_, _)
StringLess(u, v) ==
    IF v = <<>> THEN FALSE
    ELSE IF u = <<>> THEN TRUE
    ELSE IF Head(u) # Head(v) THEN CharRank(Head(u)) < CharRank(Head(v))
    ELSE StringLess(Tail(u), Tail(v))

RECURSIVE InsertString(_, _)
InsertString(u, sorted) ==
    IF sorted = <<>> THEN <<u>>
    ELSE IF StringLess(u, Head(sorted)) THEN <<u>> \o sorted
    ELSE <<Head(sorted)>> \o InsertString(u, Tail(sorted))

\* A computePackageKey that writes the entries in the order of the range.
Unsorted(strings) == strings

\* sort.Strings
RECURSIVE SortStrings(_)
SortStrings(strings) ==
    IF strings = <<>> THEN <<>> ELSE InsertString(Head(strings), SortStrings(Tail(strings)))

RECURSIVE Concat(_)
Concat(parts) == IF parts = <<>> THEN <<>> ELSE Head(parts) \o Concat(Tail(parts))

\* The orders in which a range over a map with the keys S may visit them.
RangeOrders(S) ==
    {o \in [1..Cardinality(S) -> S] : \A i, j \in DOMAIN o : o[i] = o[j] => i = j}

\* fmt.Fprintf(hasher, "import %s %s", impPath, inputs.depsByImpPath[impPath])
ImportLine(inputs, impPath) ==
    <<"import", " ">> \o impPath \o <<" ">> \o inputs.depsByImpPath[impPath]

\* fmt.Fprintf(hasher, "dep: %s key:%s\n", dep.m.PkgPath, dep.key)
DepLine(inputs, depID) ==
    <<"dep:", " ">> \o inputs.deps[depID].pkgPath
        \o <<" ", "key:", inputs.deps[depID].key, "\n">>

\* fmt.Fprintln(hasher, fh.FileIdentity()) for every file
FileLines(files) == Concat([i \in DOMAIN files |-> <<files[i], "\n">>])

\* The bytes written for inputs when the range over depsByImpPath visits
\* its keys in the order impOrder and the range over deps in depOrder.
KeyBytes(inputs, impOrder, depOrder) ==
    LET importPaths == SortStrings(impOrder)
        depIDs == SortStrings(depOrder)
    IN <<"package:", " ">> \o inputs.id \o <<" ">> \o inputs.name \o <<" ">>
            \o inputs.pkgPath \o <<"\n">>
       \o <<"go", " ">> \o inputs.goVersion \o <<"\n">>
       \o Concat([i \in DOMAIN importPaths |-> ImportLine(inputs, importPaths[i])])
       \o Concat([i \in DOMAIN depIDs |-> DepLine(inputs, depIDs[i])])
       \o <<"compiledGoFiles:", " ", Len(inputs.compiledGoFiles), "\n">>
       \o FileLines(inputs.compiledGoFiles)
       \o <<"goFiles:", " ", Len(inputs.goFiles), "\n">>
       \o FileLines(inputs.goFiles)
       \o <<"sizes:", " ", inputs.wordSize, " ", inputs.maxAlign, "\n">>
       \o <<"relatedInformation:", " ", inputs.relatedInformation, "\n">>
       \o <<"linkTarget:", " ">> \o inputs.linkTarget \o <<"\n">>
       \o <<"moduleMode:", " ", inputs.moduleMode, "\n">>

\* Maps with the keys in K and the values in V.
Maps(K, V) == UNION {[D -> V] : D \in SUBSET K}

\* Package ids and import paths; a package id may hold a space, as the id of
\* a test variant does.
KeyIDs == {<<"c">>, <<"b", " ", "c">>}
KeyImportPaths == {<<"a">>, <<"a", " ", "b">>}

\* The handles of dependencies: the key of a handle is a hash over its id,
\* so the handles of two ids have different keys.
KeyDeps ==
    {[d \in D |-> [pkgPath |-> <<"c">>, key |-> <<d, k[d]>>]] :
        D \in SUBSET KeyIDs, k \in [KeyIDs -> {"k1", "k2"}]}

\* typeCheckInputs values.
KeyInputs ==
    {[id |-> id, name |-> <<"a">>, pkgPath |-> <<"a">>, goVersion |-> <<"a">>,
      depsByImpPath |-> imp, deps |-> deps,
      compiledGoFiles |-> files, goFiles |-> files,
      wordSize |-> 8, maxAlign |-> 8,
      relatedInformation |-> TRUE, linkTarget |-> <<"a">>, moduleMode |-> TRUE] :
        id \in KeyIDs,
        imp \in Maps(KeyImportPaths, KeyIDs),
        deps \in KeyDeps,
        files \in {<<>>, <<"f1">>}}

\* computePackageKey is about to be called on x, with some order of the two
\* ranges, and on y.
KeyStart ==
    /\ pure.fn = "none"
    /\ \E x, y \in KeyInputs :
        \E io \in RangeOrders(DOMAIN x.depsByImpPath), do \in RangeOrders(DOMAIN x.deps) :
            pure' = [fn |-> "key", pc |-> "call", x |-> x, y |-> y,
                     impOrder |-> io, depOrder |-> do, xBytes |-> <<>>, yBytes |-> <<>>]
    /\ UNCHANGED <<given, walk, resolve, builders, snap, batch, counters, calls, ctxDone,
                   panicked>>

\* Both calls have written their bytes; the range of the second visits the
\* keys in a fixed order.
KeyCompute ==
    /\ pure.fn = "key" /\ pure.pc = "call"
    /\ pure' = [pure EXCEPT
            !.pc = "done",
            !.xBytes = KeyBytes(pure.x, pure.impOrder, pure.depOrder),
            !.yBytes = KeyBytes(pure.y,
                                CHOOSE o \in RangeOrders(DOMAIN pure.y.depsByImpPath) : TRUE,
                                CHOOSE o \in RangeOrders(DOMAIN pure.y.deps) : TRUE)]
    /\ UNCHANGED <<given, walk, resolve, builders, snap, batch, counters, calls, ctxDone,
                   panicked>>

KeyNext == KeyStart \/ KeyCompute

KeySpec == InitWith({Scenario(G2, {}, {}, <<>>, {}, NoCache)}) /\ [][KeyNext]_vars

\* ------------------------------------------------------------ expandErrors

\* The longest list of type errors handed to expandErrors.
MaxErrs == 3

\* Messages of type errors, as sequences of characters: plain, a
\* continuation, a continuation with two tabs, and the empty message.
ErrMsgs == {<<"x">>, <<"\t", "y">>, <<"\t", "\t", "z">>, <<>>}

\* Lists of types.Error; the position of an error stands for its location.
ErrLists ==
    UNION {{[i \in 1..n |-> [Msg |-> m[i], Pos |-> i, Soft |-> soft[i]]] :
                m \in [1..n -> ErrMsgs], soft \in [1..n -> BOOLEAN]} : n \in 0..MaxErrs}

\* An expandErrors that takes every error for a primary one.
NeverSecondary(msg) == FALSE

\* The negation of: len(spl.Msg) == 0 || spl.Msg[0] != '\t'
IsSecondary(msg) == Len(msg) # 0 /\ msg[1] = "\t"

\* The inner loop from index i: the secondaries of the error before i, with
\* spl.Msg = spl.Msg[1:].
RECURSIVE Secondaries(_, _)
Secondaries(errs, i) ==
    IF i > Len(errs) \/ ~IsSecondary(errs[i].Msg) THEN <<>>
    ELSE <<[errs[i] EXCEPT !.Msg = Tail(@)]>> \o Secondaries(errs, i + 1)

\* An expandErrors that embeds the secondary in the message whatever the
\* client supports.
EmbeddedMsg(primary, secondary, supportsRelatedInformation) ==
    primary.Msg \o <<" (this error: ">> \o secondary.Msg \o <<")">>

\* fmt.Sprintf("%v (see details)", ...) or
\* fmt.Sprintf("%v (this error: %v)", ...)
RelocatedMsg(primary, secondary, supportsRelatedInformation) ==
    IF supportsRelatedInformation THEN primary.Msg \o <<" (see details)">>
    ELSE primary.Msg \o <<" (this error: ">> \o secondary.Msg \o <<")">>

\* The clone of original at its i-th secondary.
ClonedError(original, i, supportsRelatedInformation) ==
    LET mainSecondary == original.secondaries[i]
        relocatedSecondary ==
            [mainSecondary EXCEPT
                !.Msg = RelocatedMsg(original.primary, mainSecondary, supportsRelatedInformation),
                !.Soft = original.primary.Soft]
    IN [primary |-> relocatedSecondary,
        secondaries |-> <<original.primary>> \o
            [j \in 1..Len(original.secondaries) |->
                IF i = j
                THEN [original.secondaries[j] EXCEPT !.Msg = @ \o <<" (this error)">>]
                ELSE original.secondaries[j]]]

\* An outer loop that passes over the error that ended the inner loop.
SkipsBreak(i, n) == i + n + 2

\* The index at which the inner loop, for i++; i < len(errs); i++, leaves i
\* after n secondaries.
AfterSecondaries(i, n) == i + n + 1

\* The outer loop from index i.
RECURSIVE ExpandFrom(_, _, _)
ExpandFrom(errs, i, supportsRelatedInformation) ==
    IF i > Len(errs) THEN <<>>
    ELSE LET original == [primary |-> errs[i], secondaries |-> Secondaries(errs, i + 1)]
             n == Len(original.secondaries)
         IN <<original>>
            \o [k \in 1..n |-> ClonedError(original, k, supportsRelatedInformation)]
            \o ExpandFrom(errs, AfterSecondaries(i, n), supportsRelatedInformation)

expandErrors(errs, supportsRelatedInformation) == ExpandFrom(errs, 1, supportsRelatedInformation)

\* expandErrors is about to be called.
ExpandStart ==
    /\ pure.fn = "none"
    /\ \E errs \in ErrLists, supports \in BOOLEAN :
        pure' = [fn |-> "expand", pc |-> "call", errs |-> errs,
                 supportsRelatedInformation |-> supports, result |-> <<>>]
    /\ UNCHANGED <<given, walk, resolve, builders, snap, batch, counters, calls, ctxDone,
                   panicked>>

\* expandErrors has returned.
ExpandReturn ==
    /\ pure.fn = "expand" /\ pure.pc = "call"
    /\ pure' = [pure EXCEPT
            !.pc = "done",
            !.result = expandErrors(pure.errs, pure.supportsRelatedInformation)]
    /\ UNCHANGED <<given, walk, resolve, builders, snap, batch, counters, calls, ctxDone,
                   panicked>>

ExpandNext == ExpandStart \/ ExpandReturn

ExpandSpec == InitWith({Scenario(G2, {}, {}, <<>>, {}, NoCache)}) /\ [][ExpandNext]_vars

\* ------------------------------------------- typeCheckImpl: diagnostics

URIs == {"f1", "f2"}

\* A parse error in the file uri; located tells whether
\* parseErrorDiagnostics can compute its position.
ParseErr(uri, located) == [URI |-> uri, Located |-> located]

\* pkg.parseErrors
ParseErrLists ==
    {<<>>, <<ParseErr("f1", TRUE)>>, <<ParseErr("f1", FALSE)>>,
     <<ParseErr("f2", TRUE), ParseErr("f1", TRUE)>>,
     <<ParseErr("f1", FALSE), ParseErr("f2", TRUE)>>,
     <<ParseErr("f1", TRUE), ParseErr("f1", TRUE)>>}

\* pkg.typeErrors as collected by onError: hard errors, plain or
\* continuations.
TypeErrLists ==
    {<<>>} \cup {errs \in ErrLists :
        \A i \in 1..Len(errs) : ~errs[i].Soft /\ errs[i].Msg \in {<<"x">>, <<"\t", "y">>}}

\* The package handed to the second half of typeCheckImpl: uri gives the
\* file of each position, bad the positions typeErrorDiagnostics fails on.
DiagInputs ==
    {[parseErrors |-> pe, typeErrors |-> te, hasFixedFiles |-> fixed,
      relatedInformation |-> rel, uri |-> uri, bad |-> bad] :
        pe \in ParseErrLists, te \in TypeErrLists, fixed \in BOOLEAN, rel \in BOOLEAN,
        uri \in [1..MaxErrs -> URIs],
        bad \in {{}} \cup {{i} : i \in 1..MaxErrs}}

\* The first loop: the diagnostics of the parse errors whose position can
\* be computed.
RECURSIVE ParseDiags(_)
ParseDiags(parseErrors) ==
    IF parseErrors = <<>> THEN <<>>
    ELSE (IF Head(parseErrors).Located
          THEN <<[URI |-> Head(parseErrors).URI, kind |-> "parse", Pos |-> 0, Msg |-> <<>>]>>
          ELSE <<>>) \o ParseDiags(Tail(parseErrors))

\* A typeCheckImpl that shows type errors in every file.
NoneUnparseable(unparseable, uri) == FALSE

\* unparseable[diag.URI]
IsUnparseable(unparseable, uri) == uri \in unparseable

\* The second loop: per extended error, whether its position could be
\* computed, and the diagnostic appended unless its file is unparseable.
RECURSIVE TypeDiags(_, _, _)
TypeDiags(expanded, in, unparseable) ==
    IF expanded = <<>> THEN [typeErrors |-> <<>>, diagnostics |-> <<>>]
    ELSE LET e == Head(expanded)
             rest == TypeDiags(Tail(expanded), in, unparseable)
             diag == [URI |-> in.uri[e.primary.Pos], kind |-> "type",
                      Pos |-> e.primary.Pos, Msg |-> e.primary.Msg]
         IN IF e.primary.Pos \in in.bad THEN rest
            ELSE [typeErrors |-> <<e.primary>> \o rest.typeErrors,
                  diagnostics |->
                    (IF IsUnparseable(unparseable, diag.URI) THEN <<>> ELSE <<diag>>)
                    \o rest.diagnostics]

\* typeCheckImpl after doTypeCheck: pkg.typeErrors and pkg.diagnostics.
typeCheckImpl(in) ==
    LET parse == ParseDiags(in.parseErrors)
        unparseable == {parse[k].URI : k \in 1..Len(parse)}
        type == TypeDiags(expandErrors(in.typeErrors, in.relatedInformation), in, unparseable)
    IN IF in.hasFixedFiles
       THEN [typeErrors |-> in.typeErrors, diagnostics |-> parse]
       ELSE [typeErrors |-> type.typeErrors, diagnostics |-> parse \o type.diagnostics]

\* doTypeCheck has returned the package to typeCheckImpl.
DiagStart ==
    /\ pure.fn = "none"
    /\ \E in \in DiagInputs :
        pure' = [fn |-> "diag", pc |-> "call", in |-> in,
                 pkg |-> [typeErrors |-> in.typeErrors, diagnostics |-> <<>>]]
    /\ UNCHANGED <<given, walk, resolve, builders, snap, batch, counters, calls, ctxDone,
                   panicked>>

\* typeCheckImpl has returned.
DiagReturn ==
    /\ pure.fn = "diag" /\ pure.pc = "call"
    /\ pure' = [pure EXCEPT !.pc = "done", !.pkg = typeCheckImpl(pure.in)]
    /\ UNCHANGED <<given, walk, resolve, builders, snap, batch, counters, calls, ctxDone,
                   panicked>>

DiagNext == DiagStart \/ DiagReturn

DiagSpec == InitWith({Scenario(G2, {}, {}, <<>>, {}, NoCache)}) /\ [][DiagNext]_vars

\* ------------------------------------------------------------------ claims

DoneFrames == {t \in tasks : t.pc = "done"}

\* Whether batch b took the future of id from the reused import graph.
Reused(b, id) == b \in Calls /\ calls[b].graph /\ importGraph.imports[id].st = "done"

\* Whether the pre function of batch b returns false for id.
Skipped(b, id) == b \in Calls /\ pre[b].set /\ id \in pre[b].skip

\* A frame returned what the future f holds.
Received(t, f) == f.st = "done" /\ t.pkg = f.pkg /\ t.err = f.err

\* C1 (as stated): in a batch the full type check of an id runs at most once,
\* and every caller of handleSyntaxPackage or getImportPackage for a requested
\* id returns the result of the first caller, the value of the id's syntax
\* future.
C1_AsStated ==
    /\ \A b \in Batches, id \in PackageIDs : nCheck[b][id] <= 1
    /\ \A t \in DoneFrames :
        syntaxIndex[t.b][t.id] # 0 => Received(t, syntaxPackages[t.b][t.id])

\* C1 (amended): in a batch the full type check of an id runs at most once;
\* every caller of handleSyntaxPackage returns the value of the id's syntax
\* future; a caller of getImportPackage returns the value of the id's import
\* future, or the cancellation error if its context is cancelled; and the
\* import future of a requested id holds the value of its syntax future
\* unless the batch took it from the reused import graph or the pre function
\* returned false for the id.
C1_CheckedOnce ==
    /\ \A b \in Batches, id \in PackageIDs : nCheck[b][id] <= 1
    /\ \A t \in DoneFrames :
        /\ t.kind = "syntax" => Received(t, syntaxPackages[t.b][t.id])
        /\ t.kind = "import" =>
            \/ Received(t, importPackages[t.b][t.id])
            \/ Ctx(t.b) /\ t.pkg = NilPkg /\ t.err = "cancelled"
    /\ \A b \in Batches, id \in PackageIDs :
        (/\ syntaxIndex[b][id] # 0 /\ importPackages[b][id].st = "done"
         /\ ~Reused(b, id) /\ ~Skipped(b, id))
            => /\ syntaxPackages[b][id].st = "done"
               /\ importPackages[b][id].pkg = syntaxPackages[b][id].pkg
               /\ importPackages[b][id].err = syntaxPackages[b][id].err

\* Two callers of handleSyntaxPackage for one id have returned the package of
\* the single full type check, and so has a caller of getImportPackage.
C1_Witness ==
    \E t, u, v \in DoneFrames :
        /\ t.b = u.b /\ t.id = u.id /\ t # u /\ v.b = t.b /\ v.id = t.id
        /\ t.kind = "syntax" /\ u.kind = "syntax" /\ v.kind = "import"
        /\ nCheck[t.b][t.id] = 1
        /\ t.pkg # NilPkg /\ u.pkg = t.pkg /\ v.pkg = t.pkg

\* C2: in a batch the import-only build of an id (importPackage or
\* checkPackageForImport) runs at most once, whoever calls getImportPackage.
C2_ImportedOnce == \A b \in Batches, id \in PackageIDs : nImport[b][id] <= 1

\* getImportPackage for one id has returned the single import-only build to
\* awaitPredecessors and to an importer or resolver callback.
C2_Witness ==
    \E t, u \in DoneFrames :
        /\ t.b = u.b /\ t.id = u.id /\ t.kind = "import" /\ u.kind = "import"
        /\ t.pk = "syntax" /\ u.pk = "import"
        /\ nImport[t.b][t.id] = 1
        /\ t.pkg # NilPkg /\ t.pkg.how # "syntax" /\ u.pkg = t.pkg

HasReturned(c) == calls[c].pc = "returned"

\* Whether the full type check of id succeeds under a live context.
Checkable(id) == CanBuild(id) /\ meta[id].files > 0

\* C3: TypeCheck(ids) returns len(ids) entries and, whenever the error is
\* nil, every result slot is non-nil, also when an id occurs more than once.
C3_AsStated ==
    \A c \in Calls : (HasReturned(c) /\ ~pre[c].set) =>
        /\ Len(calls[c].pkgs) = Len(requests[c])
        /\ calls[c].err = "" => \A k \in 1..Len(requests[c]) : calls[c].pkgs[k] # NilPkg

SlotsMemoized ==
    \A c \in Calls : \A k \in 1..Len(calls[c].pkgs) :
        (~pre[c].set /\ calls[c].pkgs[k] # NilPkg)
            => calls[c].pkgs[k] = activePackages[requests[c][k]]

\* An active-package entry is not replaced once set.
ActiveKept ==
    \A id \in PackageIDs : activePackages[id] # NilPkg => activePackages'[id] = activePackages[id]

ServedStep(c) ==
    /\ calls[c].pc = "idle" /\ calls'[c].pc # "idle"
    /\ ~pre[c].set /\ NeedIndexes(requests[c]) = <<>>

\* C6: a TypeCheck with no id left to build returns nil error at once,
\* without taking the import-graph latch, creating a batch, or building a
\* handle or a package.
C6_NoWork ==
    [][\A c \in Calls : ServedStep(c) =>
        /\ calls'[c].pc = "returned" /\ calls'[c].err = ""
        /\ UNCHANGED <<importGraphDone, resolver, importGraph, packages, activePackages,
                       batch, counters>>]_vars

\* A request whose ids are all active has returned without a batch.
C6_Witness ==
    \E c \in Calls :
        /\ HasReturned(c) /\ requests[c] # <<>> /\ calls[c].indexes = <<>>
        /\ c \notin started /\ calls[c].err = ""
        /\ \A id \in PackageIDs : nCheck[c][id] = 0

\* A later call of the same ids under a live context has succeeded.
LaterSucceeds(c) ==
    \A d \in Calls :
        (/\ c \in calls[d].after /\ requests[d] = requests[c]
         /\ HasReturned(d) /\ ~ctxDone[d]
         /\ \A k \in 1..Len(requests[c]) : Checkable(requests[c][k]))
        => calls[d].err = ""

ErrOfFrame(c) ==
    calls[c].err # "" => \E t \in TopFrames(c) : t.err = calls[c].err

C9_PredecessorFailure ==
    \A t \in tasks : t.kind = "syntax" =>
        /\ t.dep = "live" => t.pc \in {"acquire", "checker", "done"}
        /\ (t.dep = "live" /\ t.pc = "done" /\ ~Ctx(t.b) /\ meta[t.id].files > 0)
            => /\ t.err = "" /\ t.pkg # NilPkg
               /\ nCheck[t.b][t.id] = 1 /\ nPost[t.b][t.id] = 1
        /\ t.dep = "cancelled"
            => /\ t.pc = "done" /\ t.err = "cancelled" /\ t.pkg = NilPkg
               /\ nCheck[t.b][t.id] = 0 /\ nPost[t.b][t.id] = 0

\* A package one of whose predecessors failed has been type-checked and
\* posted.
C9_Witness ==
    \E t \in DoneFrames :
        /\ t.kind = "syntax" /\ t.dep = "live" /\ t.err = ""
        /\ \E u \in ChildFrames(t) : u.err # ""
        /\ nCheck[t.b][t.id] = 1 /\ nPost[t.b][t.id] = 1

\* C10: when a requested id has no metadata the call returns an error, and
\* every other requested id whose own build succeeds has been fully
\* type-checked and posted, its result slot filled, before the call returns.
C10_SiblingsUnaffected ==
    \A c \in Calls :
        (HasReturned(c) /\ \E k \in 1..Len(requests[c]) : ~meta[requests[c][k]].ok) =>
            /\ calls[c].err # ""
            /\ \A k \in 1..Len(requests[c]) :
                (Checkable(requests[c][k]) /\ ~ctxDone[c]) =>
                    /\ nCheck[c][requests[c][k]] = 1 /\ nPost[c][requests[c][k]] = 1
                    /\ \E j \in 1..Len(requests[c]) :
                        /\ requests[c][j] = requests[c][k]
                        /\ calls[c].pkgs[j] # NilPkg /\ calls[c].pkgs[j].id = requests[c][k]

\* A call has returned the missing-metadata error of one id with the slot
\* of a sibling filled.
C10_Witness ==
    \E c \in Calls :
        /\ HasReturned(c) /\ calls[c].err = "nometa"
        /\ \E k, j \in 1..Len(requests[c]) :
            /\ ~meta[requests[c][k]].ok
            /\ calls[c].pkgs[j] # NilPkg /\ nPost[c][requests[c][j]] = 1

\* C11: a dependency without metadata, anywhere below a requested package,
\* never crashes the batch, and the requested package is still produced,
\* whether its dependencies are fully checked or loaded from export data.
C11_AsStated ==
    /\ ~panicked
    /\ \A c \in Calls : (HasReturned(c) /\ ~pre[c].set) =>
        \A k \in 1..Len(requests[c]) :
            (Checkable(requests[c][k]) /\ ~ctxDone[c]) =>
                \E j \in 1..Len(requests[c]) :
                    requests[c][j] = requests[c][k] /\ calls[c].pkgs[j] # NilPkg

\* The frames of batch b that are inside check.Files: a full type check, or
\* a stripped check that is not waiting for its importer.
InChecker(b) ==
    {t \in tasks : /\ t.b = b
                   /\ \/ t.kind = "syntax" /\ t.pc = "checker"
                      \/ t.kind = "import" /\ t.mode = "stripped" /\ t.pc = "loop"}

\* C12: at every instant the packages of a batch that are inside a full type
\* check or a stripped import-only check number at most the width of the
\* cpulimit semaphore.
C12_AsStated == \A b \in Batches : Cardinality(InChecker(b)) <= CpuWidth

\* The frames of batch b that hold a CPU token.
TokenHolders(b) == {t \in tasks : t.b = b /\ t.kind = "syntax" /\ t.pc = "checker"}

\* C13: a package handled by handleSyntaxPackage holds a CPU token only
\* after getImportPackage has returned for every direct dependency; the
\* tokens taken are those of the packages inside checkPackage, so no frame
\* holds one while it awaits a predecessor.
C13_TokenAfterPredecessors ==
    /\ \A b \in Batches : cpulimit[b] = Cardinality(TokenHolders(b))
    /\ \A t \in tasks : (t.kind = "syntax" /\ t.pc = "checker") =>
        \A d \in meta[t.id].deps :
            \E u \in ChildFrames(t) : u.kind = "import" /\ u.id = d /\ u.pc = "done"

\* A package with two direct dependencies holds a CPU token.
C13_Witness ==
    \E t \in tasks :
        /\ t.kind = "syntax" /\ t.pc = "checker" /\ cpulimit[t.b] = 1
        /\ Cardinality(meta[t.id].deps) = 2
        /\ \A u \in ChildFrames(t) : u.pc = "done"

Cyclic ==
    \E S \in SUBSET WalkIDs : S # {} /\ \A p \in S : meta[p].deps \cap S # {}

\* C15: also on a metadata graph with a dependency cycle, the recursions of
\* buildPackageHandle with typeCheckInputs, of importMap and of isVolatile
\* end: none nests deeper than one call per package and the outermost.
C15_AsStated == Len(walk.stack) <= Cardinality(WalkIDs) + 1

\* The calls of handleSyntaxPackage for id in batch b.
SyntaxFrames(b, id) == {t \in tasks : t.b = b /\ t.kind = "syntax" /\ t.id = id}

\* C16: pre is evaluated after the handle of the package is built and before
\* any full type check; if pre returns false the syntax future of the package
\* completes with (nil, nil), no full type check runs and post is never
\* invoked for it; post is invoked only after a successful full type check
\* of the package, and at most once per (batch, id).
C16_PreThenPost ==
    /\ \A t \in tasks : (t.kind = "syntax" /\ t.pre # "") =>
        /\ packages[t.id] # NoHandle
        /\ t.pre = "false" <=> Skipped(t.b, t.id)
    /\ \A b \in Calls, id \in PackageIDs :
        /\ (pre[b].set /\ nCheck[b][id] > 0) => \E t \in SyntaxFrames(b, id) : t.pre = "true"
        /\ Skipped(b, id)
            => /\ nCheck[b][id] = 0 /\ nPost[b][id] = 0
               /\ (syntaxPackages[b][id].st = "done" /\ CanBuild(id) /\ ~ctxDone[b])
                    => syntaxPackages[b][id] = Done(NilPkg, "")
        /\ nPost[b][id] <= 1
        /\ nPost[b][id] = 1
            => /\ nCheck[b][id] = 1
               /\ syntaxPackages[b][id].st = "done"
               /\ syntaxPackages[b][id].pkg # NilPkg /\ syntaxPackages[b][id].err = ""

\* A forEachPackage call has returned: pre returned false for B, which was
\* neither checked nor posted, and true for A, which was checked and posted.
C16_Witness ==
    \E c \in Calls :
        /\ HasReturned(c) /\ pre[c].set /\ "B" \in pre[c].skip
        /\ \E t \in SyntaxFrames(c, "B") : t.pre = "false" /\ t.pc = "done"
        /\ syntaxPackages[c]["B"] = Done(NilPkg, "") /\ nCheck[c]["B"] = 0
        /\ \E t \in SyntaxFrames(c, "A") : t.pre = "true" /\ t.pc = "done"
        /\ nCheck[c]["A"] = 1 /\ nPost[c]["A"] = 1

\* The value handleSyntaxPackage returned to the getImportPackage that
\* installed the import future of id in batch b.
Delegated(b, id) ==
    {u \in SyntaxFrames(b, id) : u.pk = "import" /\ u.pid = id /\ u.pc = "done"}

LatchState ==
    /\ importGraphDone = "nil" <=> resolver = "idle"
    /\ importGraphDone = "open" <=> resolver \in {"start", "batch"}
    /\ importGraphDone = "closed" <=> resolver = "done"

\* C18: the import-graph latch only moves unstarted -> in flight -> done;
\* resolveImportGraph is started exactly once, by the caller that finds the
\* latch unstarted; the graph (possibly nil) is stored in the snapshot no
\* later than the latch is closed and never changes afterwards; and every
\* caller that returns through the closed latch observes that stored graph.
C18_LatchOnce ==
    [][/\ LatchState
       /\ importGraphDone' # importGraphDone
            => <<importGraphDone, importGraphDone'>> \in {<<"nil", "open">>, <<"open", "closed">>}
       /\ (resolver' = "start" /\ resolver # "start")
            => (resolver = "idle" /\ importGraphDone = "nil")
       /\ (resolver' = "batch" /\ resolver # "batch") => 0 \notin started
       /\ importGraph' # importGraph
            => (importGraphDone = "open" /\ importGraphDone' = "closed")
       /\ \A c \in Calls :
            (calls[c].pc = "latch" /\ calls'[c].pc = "wait")
            => \/ /\ importGraphDone = "closed"
                  /\ calls'[c].graph = importGraph.ok
                  /\ importGraph.ok => \A id \in PackageIDs :
                        importGraph.imports[id].st = "done"
                            => importPackages'[c][id] = importGraph.imports[id]
               \/ ctxDone[c] /\ ~calls'[c].graph]_vars

\* Two concurrent callers were both waiting on the latch while the single
\* resolver ran its batch, and both have returned with the published graph.
C18_Witness ==
    /\ importGraphDone = "closed" /\ importGraph.ok /\ 0 \in started
    /\ \E id \in PackageIDs : importGraph.imports[id].st = "done"
    /\ \A c \in Calls : calls[c].graph /\ calls[c].after = {}

\* resolveImportGraph decides between the last graph and a fresh batch.
Decides == resolver = "start" /\ resolver' # "start"

\* The last graph is returned, and no batch is created.
ReusesLast == resolver' = "done" /\ importGraph' = importGraph /\ 0 \notin started'

\* A batch without prior graph is created, with one getImportPackage
\* goroutine per id of the computed deps.
RunsFreshBatch ==
    /\ resolver' = "batch" /\ 0 \in started'
    /\ \A id \in PackageIDs : importPackages'[0][id] = NoFuture
    /\ {t.id : t \in {u \in tasks' : u.b = 0 /\ u.pk = "top"}} = DOMAIN DepsMap

RECURSIVE UpwardCone(_)
UpwardCone(S) ==
    LET T == S \cup {p \in PackageIDs : meta[p].ok /\ meta[p].deps \cap S # {}}
    IN IF T = S THEN S ELSE UpwardCone(T)

\* The direct dependencies of open packages whose handle can be built and
\* that are outside the upward cone of the open packages.
WorthSharing ==
    {d \in UNION {meta[o].deps : o \in overlays} :
        CanBuild(d) /\ d \notin UpwardCone(overlays)}

\* C20: on an acyclic metadata graph, for every set of open packages and
\* whatever the iteration order of the maps, the deps computed by
\* resolveImportGraph is exactly the direct dependencies of open packages
\* whose handle can be built and that are neither open nor transitively
\* import an open package, each mapped to its handle key.
C20_DepsExact ==
    resolve.pc = "done" =>
        /\ resolve.deps = [d \in WorthSharing |-> ComputePackageKey(d)]
        /\ resolve.deps = DepsMap

\* A imports B, B imports C, A and B are open: deps is {C}.
C20_Witness ==
    /\ resolve.pc = "done"
    /\ meta["A"].deps = {"B"} /\ meta["B"].deps = {"C"} /\ meta["C"].deps = {}
    /\ overlays = {"A", "B"}
    /\ DOMAIN resolve.deps = {"C"} /\ resolve.deps["C"] = ComputePackageKey("C")

\* An entry of the handle store is not replaced.
HandleKept == \A id \in PackageIDs : packages[id] # NoHandle => packages'[id] = packages[id]

\* Every handle a call has returned is the entry of the store for its id.
OneHandle == \A r \in builders.got : packages[r[1]] = r[2]

\* C21: under any interleaving of concurrent calls of buildPackageHandle,
\* every call that succeeds for an id returns the same handle instance, the
\* entry of the handle store, and an entry of the store is never replaced.
C21_OneHandlePerID == [][HandleKept /\ OneHandle']_vars

\* Two goroutines have finished their concurrent calls: the stored handle
\* of A was created by the first, that of C by the second, and the calls for
\* A returned the stored handle.
C21_Witness ==
    /\ \A g \in {1, 2} : builders.run[g].pc = "done"
    /\ packages["A"] # NoHandle /\ packages["A"].by = 1
    /\ packages["C"] # NoHandle /\ packages["C"].by = 2
    /\ <<"A", packages["A"]>> \in builders.got

KeyDone == pure.fn = "key" /\ pure.pc = "done"

\* C22: computePackageKey does not depend on the iteration order of the
\* dependency map and of the import map: two typeCheckInputs that are equal
\* as values yield the same bytes, and so the same key.
C22_OrderInvariant == (KeyDone /\ pure.x = pure.y) => pure.xBytes = pure.yBytes

\* Equal inputs with two imports and two dependencies, ranged over in two
\* different orders, have yielded the same bytes.
C22_Witness ==
    /\ KeyDone /\ pure.x = pure.y /\ pure.xBytes = pure.yBytes
    /\ Len(pure.impOrder) = 2 /\ Len(pure.depOrder) = 2
    /\ pure.impOrder # (CHOOSE o \in RangeOrders(DOMAIN pure.y.depsByImpPath) : TRUE)
    /\ pure.depOrder # (CHOOSE o \in RangeOrders(DOMAIN pure.y.deps) : TRUE)

\* C23: the bytes written by computePackageKey are an injective encoding:
\* two typeCheckInputs that differ in a contributing field never yield the
\* same bytes, for arbitrary strings as import paths and package ids.
C23_AsStated == (KeyDone /\ pure.x # pure.y) => pure.xBytes # pure.yBytes

\* The calls of getImportPackage that installed the import future.
ImportProducers == {t \in tasks : t.kind = "import" /\ t.held # ""}

\* C24 (as stated): when the file cache holds export data for a package,
\* getImportPackage for that package returns the decoded package, with no
\* type check of the package; the stripped check runs only when the cache
\* reports NotFound.
C24_AsStated ==
    \A t \in ImportProducers :
        /\ (t.held = "ok" /\ t.pc = "done" /\ t.pkg # NilPkg)
            => (t.pkg.how = "export" /\ nCheck[t.b][t.id] = 0)
        /\ t.mode = "stripped" => t.read = "none"

\* C24 (amended): when getImportPackage reads the file cache for a package,
\* which it does not for a requested package whose full check produced a
\* result, and the cache holds export data, it decodes the export data with
\* no import-only type check of the package and returns the decoded package
\* or an error; the stripped check runs only when the cache reports NotFound.
C24_CacheHitDecodes ==
    \A t \in ImportProducers :
        /\ t.read \in {"ok", "bad", "err"} => t.mode # "stripped"
        /\ (t.read = "ok" /\ t.pc = "done" /\ t.pkg # NilPkg) => t.pkg.how = "export"
        /\ t.mode = "stripped" => t.read = "none"
        /\ (t.pc = "done" /\ t.pkg # NilPkg /\ t.pkg.how = "stripped") => t.read = "none"
        /\ (t.held = "ok" /\ t.pc = "done" /\ t.pkg # NilPkg /\ t.pkg.how # "export")
            => (t.read = "" /\ syntaxIndex[t.b][t.id] # 0 /\ t.pkg.how = "syntax")

\* One batch has decoded the cached export data of B, with no stripped
\* check of B, and has run the stripped check of C, which was not cached.
C24_Witness ==
    \E t, u \in ImportProducers :
        /\ t.b = u.b /\ t.id = "B" /\ u.id = "C" /\ t.pc = "done" /\ u.pc = "done"
        /\ t.read = "ok" /\ t.pkg # NilPkg /\ t.pkg.how = "export"
        /\ u.read = "none" /\ u.pkg # NilPkg /\ u.pkg.how = "stripped"

\* C25: if the cached export data of a package cannot be decoded while the
\* context is live, getImportPackage treats it as a cache miss: it falls
\* back to the stripped type check and returns its result, not an error.
C25_AsStated ==
    \A t \in ImportProducers :
        (t.read = "bad" /\ t.pc = "done" /\ ~Ctx(t.b))
            => (t.err = "" /\ t.pkg # NilPkg /\ t.pkg.how = "stripped")

\* A full or a stripped check of id has returned a package.
Checked(id) ==
    \E b \in Batches :
        \/ syntaxPackages[b][id].st = "done" /\ syntaxPackages[b][id].pkg # NilPkg
        \/ /\ importPackages[b][id].st = "done" /\ importPackages[b][id].pkg # NilPkg
           /\ importPackages[b][id].pkg.how = "stripped" /\ importPackages[b][id].pkg.b = b

\* A goroutine that writes to the file cache runs.
PutRuns == \E p \in pendingPut : p.st = "go" /\ p \notin pendingPut'

\* The goroutines of id have run.
PutsRan(id) ==
    /\ \E p \in pendingPut : p.id = id
    /\ \A p \in pendingPut : p.id = id => p.st # "go"

\* The run of a goroutine that writes to the file cache changes no future,
\* no result slot and no active package.
PutIsSilent ==
    [][PutRuns => UNCHANGED <<tasks, syntaxPackages, importPackages, gErr, calls,
                               activePackages, counters>>]_vars

\* C26 (as stated): the result of a check is the same whether the export or
\* the put fails or succeeds, and after a successful stripped or full check
\* a put under the key of the package is eventually issued.
C26_AsStated ==
    /\ PutIsSilent
    /\ \A id \in PackageIDs :
        Checked(id) ~> (panicked \/ \A p \in pendingPut : p.id = id => p.st = "put")

\* C26 (amended): the result of a check is the same whether the export or
\* the put fails or succeeds, and after a successful stripped or full check
\* the goroutine that writes to the cache eventually runs: it issues a put
\* under the key of the package, except that after a stripped check whose
\* export fails it issues none.
C26_FireAndForget ==
    /\ PutIsSilent
    /\ \A id \in PackageIDs : Checked(id) ~> (panicked \/ PutsRan(id))
    /\ [](\A p \in pendingPut : p.st = "noexport" => p.kind = "stripped")

\* The request has returned with its package while a put of the stripped
\* check of B failed to export and the put of the full check of A was issued.
C26_Witness ==
    /\ HasReturned(1) /\ calls[1].err = "" /\ calls[1].pkgs # <<>>
    /\ calls[1].pkgs[1] # NilPkg
    /\ [id |-> "B", kind |-> "stripped", st |-> "noexport"] \in pendingPut
    /\ [id |-> "A", kind |-> "full", st |-> "put"] \in pendingPut

\* The call c is TypeCheck(D) on the diamond; the one scenario with this
\* graph starts with an empty cache and no import graph.
Diamond(c) == meta = GD /\ requests[c] = <<"D">> /\ ~pre[c].set

\* The ids with a future in the map m of a batch.
Installed(m) == {id \in PackageIDs : m[id].st # "none"}

\* C27 (as stated): TypeCheck(D) on the diamond builds A once and leaves D
\* in syntaxPackages and A, B, C and D in importPackages.
C27_AsStated ==
    \A c \in Calls : (Diamond(c) /\ HasReturned(c)) =>
        /\ nImport[c]["A"] = 1
        /\ Installed(syntaxPackages[c]) = {"D"}
        /\ Installed(importPackages[c]) = {"A", "B", "C", "D"}

\* C27: TypeCheck(D) on the diamond builds each of A, B and C once for
\* import and fully checks D once; when the call returns syntaxPackages
\* holds exactly D and importPackages exactly A, B and C, since nothing
\* calls getImportPackage for the requested top.
C27_Diamond ==
    \A c \in Calls : (Diamond(c) /\ HasReturned(c)) =>
        /\ nImport[c]["A"] = 1 /\ nImport[c]["B"] = 1 /\ nImport[c]["C"] = 1
        /\ nCheck[c]["D"] = 1 /\ nImport[c]["D"] = 0
        /\ Installed(syntaxPackages[c]) = {"D"}
        /\ Installed(importPackages[c]) = {"A", "B", "C"}

\* TypeCheck(D) on the diamond has returned D with A built once.
C27_Witness ==
    \E c \in Calls :
        /\ Diamond(c) /\ HasReturned(c) /\ calls[c].err = ""
        /\ calls[c].pkgs[1] # NilPkg /\ nImport[c]["A"] = 1
        /\ \A id \in {"A", "B", "C"} : importPackages[c][id].st = "done"

\* The frame t is inside the external checker, which has no import left to
\* ask for: check.Files of the full check, or of the stripped check.
CheckerDone(t) ==
    \/ t.kind = "syntax" /\ t.pc = "checker"
    \/ t.kind = "import" /\ t.mode = "stripped" /\ t.pc = "loop" /\ t.todo = <<>>

\* The future of the frame t.
FutureOf(t, syn, imp) == IF t.kind = "syntax" THEN syn[t.b][t.id] ELSE imp[t.b][t.id]

\* C28: when the checker of a full or stripped check returns under a
\* cancelled context its outputs are dropped: the check returns the
\* cancellation error and no package, post is not called, nothing is
\* memoized, no goroutine is started to write to the blob cache, and the
\* future of the package completes with the cancellation error.
C28_OutputsDropped ==
    [][\A t \in tasks : (CheckerDone(t) /\ t \notin tasks' /\ Ctx(t.b)) =>
        /\ Returned(t, NilPkg, "cancelled") \in tasks'
        /\ UNCHANGED <<nPost, activePackages, pendingPut, cache>>
        /\ calls'[t.b].pkgs = calls[t.b].pkgs
        /\ FutureOf(t, syntaxPackages', importPackages') = Done(NilPkg, "cancelled")]_vars

\* A full check and a stripped check of one batch have both returned the
\* cancellation error out of the checker, with nothing posted and no write
\* to the cache started for either package.
C28_Witness ==
    \E t, u \in tasks :
        /\ t.b \in Calls /\ t.b = u.b /\ ctxDone[t.b]
        /\ t.kind = "syntax" /\ t.pc = "done" /\ t.err = "cancelled" /\ t.id \in calls[t.b].cut
        /\ u.kind = "import" /\ u.mode = "stripped" /\ u.pc = "done" /\ u.err = "cancelled"
        /\ importPackages[u.b][u.id] = Done(NilPkg, "cancelled")
        /\ syntaxPackages[t.b][t.id] = Done(NilPkg, "cancelled")
        /\ nPost[t.b][t.id] = 0
        /\ \A p \in pendingPut : p.id \notin {t.id, u.id}

\* The frame t is blocked on the future of another frame, or on the CPU
\* semaphore.
Blocked(t) ==
    \/ t.pc = "wait" /\ FutureOf(t, syntaxPackages, importPackages).st # "done"
    \/ t.kind = "syntax" /\ t.pc = "acquire" /\ cpulimit[t.b] = CpuWidth

\* A step by which the waiting frame t returns the cancellation error.
ReturnsCancelled(t) ==
    /\ \/ SyntaxWaitDone(t) \/ ImportWaitDone(t) \/ ImportWaitCancelled(t)
       \/ AcquireCancelled(t) \/ AcquireToken(t)
    /\ Returned(t, NilPkg, "cancelled") \in tasks'

\* C29 (as stated): once the context is cancelled, every frame blocked on a
\* future, in getImportPackage or in handleSyntaxPackage, or on the CPU
\* semaphore can return the cancellation error at once, without the
\* producer of the future finishing first.
C29_AsStated ==
    \A t \in tasks : (Blocked(t) /\ Ctx(t.b)) => ENABLED ReturnsCancelled(t)

ExpandDone == pure.fn = "expand" /\ pure.pc = "done"

\* Whether the message of e starts with a tab.
Tabbed(e) == e.Msg # <<>> /\ Head(e.Msg) = "\t"

\* The indexes of the primary errors of errs: the first error, and every
\* later one whose message does not start with a tab.
Primaries(errs) == {i \in 1..Len(errs) : i = 1 \/ ~Tabbed(errs[i])}

\* The number of continuations that follow the primary at index i.
Continuations(errs, i) ==
    CHOOSE n \in 0..(Len(errs) - i) :
        /\ \A k \in 1..n : Tabbed(errs[i + k])
        /\ i + n < Len(errs) => ~Tabbed(errs[i + n + 1])

\* The error e with the first tab of its message removed.
Stripped(e) == [e EXCEPT !.Msg = SubSeq(e.Msg, 2, Len(e.Msg))]

\* The error e with its message marked.
ThisError(e) == [e EXCEPT !.Msg = e.Msg \o <<" (this error)">>]

\* C30: expandErrors yields, for each primary error followed by N
\* continuations, the primary unchanged with the N continuations, their tab
\* stripped, as its secondaries, and then N more errors: the k-th is located
\* at the k-th continuation, its message is the primary's followed by
\* " (see details)" when related information is supported and by
\* " (this error: <continuation>)" otherwise, and its secondaries are the
\* primary and then the continuations in order, the k-th one alone marked
\* " (this error)".
C30_Expansion ==
    ExpandDone =>
        LET errs == pure.errs
            out == pure.result
        IN /\ Len(out) = Len(errs)
           /\ \A i \in Primaries(errs) :
                LET n == Continuations(errs, i)
                    conts == [k \in 1..n |-> Stripped(errs[i + k])]
                IN /\ out[i] = [primary |-> errs[i], secondaries |-> conts]
                   /\ \A k \in 1..n :
                        /\ out[i + k].primary.Pos = errs[i + k].Pos
                        /\ out[i + k].primary.Msg =
                            IF pure.supportsRelatedInformation
                            THEN errs[i].Msg \o <<" (see details)">>
                            ELSE errs[i].Msg \o <<" (this error: ">> \o conts[k].Msg \o <<")">>
                        /\ out[i + k].secondaries = <<errs[i]>> \o
                            [j \in 1..n |-> IF j = k THEN ThisError(conts[j]) ELSE conts[j]]

\* A primary with two continuations has been expanded without related
\* information: the second clone embeds the second continuation and marks
\* it alone.
C30_Witness ==
    /\ ExpandDone /\ ~pure.supportsRelatedInformation
    /\ Len(pure.errs) = 3 /\ Primaries(pure.errs) = {1} /\ pure.errs[1].Msg = <<"x">>
    /\ pure.errs[2].Msg = <<"\t", "y">> /\ pure.errs[3].Msg = <<"\t", "\t", "z">>
    /\ Len(pure.result) = 3
    /\ pure.result[3].primary.Msg = <<"x", " (this error: ", "\t", "z", ")">>
    /\ pure.result[3].primary.Pos = 3
    /\ Len(pure.result[3].secondaries) = 3
    /\ pure.result[3].secondaries[2].Msg = <<"y">>
    /\ pure.result[3].secondaries[3].Msg = <<"\t", "z", " (this error)">>

\* The locations of the secondaries of the extended error e, from which its
\* related information is made.
Related(e) == [j \in 1..Len(e.secondaries) |-> e.secondaries[j].Pos]

\* expandErrors has returned for a primary error with one continuation, the
\* client supporting related information.
OneContinuation ==
    /\ ExpandDone /\ pure.supportsRelatedInformation
    /\ Len(pure.errs) = 2 /\ Tabbed(pure.errs[2])

\* What C31 says of the two errors apart from the related locations of the
\* second.
TwoErrors ==
    /\ Len(pure.result) = 2
    /\ pure.result[1].primary = pure.errs[1] /\ Related(pure.result[1]) = <<2>>
    /\ pure.result[2].primary.Pos = 2
    /\ pure.result[2].primary.Msg = pure.errs[1].Msg \o <<" (see details)">>

\* C31 (as stated): a primary at loc1 with one continuation at loc2 expands,
\* with related information, to two errors: the first at loc1 with the
\* primary message and related locations [loc2], the second at loc2 with
\* the message "<primary> (see details)" and related locations [loc1] only.
C31_AsStated == OneContinuation => (TwoErrors /\ Related(pure.result[2]) = <<1>>)

\* C31: the same two errors, but the second has related locations
\* [loc1, loc2]: the primary, and the continuation itself with its message
\* marked " (this error)".
C31_OneContinuation ==
    OneContinuation =>
        /\ TwoErrors
        /\ Related(pure.result[2]) = <<1, 2>>
        /\ pure.result[2].secondaries[1] = pure.errs[1]
        /\ pure.result[2].secondaries[2] = ThisError(Stripped(pure.errs[2]))

\* "x" at location 1 followed by "\ty" at location 2 has been expanded.
C31_Witness ==
    /\ OneContinuation
    /\ pure.errs[1].Msg = <<"x">> /\ pure.errs[2].Msg = <<"\t", "y">>
    /\ pure.result[2].primary.Msg = <<"x", " (see details)">>
    /\ Related(pure.result[2]) = <<1, 2>>
    /\ pure.result[2].secondaries[2].Msg = <<"y", " (this error)">>

DiagDone == pure.fn = "diag" /\ pure.pc = "done"

\* The diagnostics of one kind, and the files that carry one.
OfKind(diags, kind) == SelectSeq(diags, LAMBDA d : d.kind = kind)
FilesOf(diags) == {diags[k].URI : k \in 1..Len(diags)}

\* C32: the parse-error diagnostics are emitted whether or not files were
\* fixed; with hasFixedFiles no type-error diagnostic is emitted; otherwise
\* the diagnostic of a type error is emitted if and only if its file has no
\* parse-error diagnostic; so no file carries diagnostics of both kinds.
C32_Suppression ==
    DiagDone =>
        LET in == pure.in
            diags == pure.pkg.diagnostics
            parse == OfKind(diags, "parse")
            type == OfKind(diags, "type")
            located == SelectSeq(in.parseErrors, LAMBDA e : e.Located)
        IN /\ Len(parse) = Len(located)
           /\ \A k \in 1..Len(parse) : parse[k].URI = located[k].URI
           /\ in.hasFixedFiles => type = <<>>
           /\ ~in.hasFixedFiles =>
                \A i \in 1..Len(in.typeErrors) : i \notin in.bad =>
                    ((\E k \in 1..Len(type) : type[k].Pos = i)
                        <=> in.uri[i] \notin FilesOf(parse))
           /\ FilesOf(parse) \cap FilesOf(type) = {}

\* With a parse error in f1 and type errors in both files, the type error
\* of f2 alone has been reported.
C32_Witness ==
    /\ DiagDone /\ ~pure.in.hasFixedFiles /\ pure.in.bad = {}
    /\ pure.in.parseErrors = <<ParseErr("f1", TRUE)>>
    /\ Len(pure.in.typeErrors) = 2 /\ pure.in.uri[1] = "f1" /\ pure.in.uri[2] = "f2"
    /\ Len(pure.pkg.diagnostics) = 2
    /\ pure.pkg.diagnostics[1].kind = "parse" /\ pure.pkg.diagnostics[1].URI = "f1"
    /\ pure.pkg.diagnostics[2].kind = "type" /\ pure.pkg.diagnostics[2].URI = "f2"

\* The frame t installed the future of its id in the map of its kind and
\* has not returned yet.
Producing(t) == t.pc \notin {"start", "wait", "done"}

\* The map of futures of a kind of frame.
FuturesOf(kind, syn, imp) == IF kind = "syntax" THEN syn ELSE imp

\* A future is pending exactly while the one frame that installed it is
\* running.
OneProducer(T, syn, imp) ==
    /\ \A t \in T : Producing(t) =>
        /\ FuturesOf(t.kind, syn, imp)[t.b][t.id] = Pending
        /\ \A u \in T : (Producing(u) /\ u.b = t.b /\ u.id = t.id /\ u.kind = t.kind) => u = t
    /\ \A b \in Batches, id \in PackageIDs :
        /\ syn[b][id].st = "pending" =>
            \E t \in T : Producing(t) /\ t.b = b /\ t.id = id /\ t.kind = "syntax"
        /\ imp[b][id].st = "pending" =>
            \E t \in T : Producing(t) /\ t.b = b /\ t.id = id /\ t.kind = "import"

\* A step of the future f, g after the step, of batch b: it is completed
\* once with what its producer returns in that step, and never changes
\* afterwards.
FutureStep(b, id, kind, f, g) ==
    /\ (f.st = "done" /\ b \in started /\ b \in started') => g = f
    /\ (f.st = "pending" /\ g # f) =>
        /\ g.st = "done"
        /\ \E t \in tasks : /\ Producing(t) /\ t.b = b /\ t.id = id /\ t.kind = kind
                             /\ \E u \in tasks' : /\ SameFrame(u, t) /\ u.pc = "done"
                                                  /\ u.pkg = g.pkg /\ u.err = g.err

\* A step of a consumer: a frame that waits returns what the closed future
\* holds, or, in getImportPackage, the cancellation of its context.
ConsumerStep(t) ==
    (t.pc = "wait" /\ t \notin tasks') =>
        LET f == FuturesOf(t.kind, syntaxPackages, importPackages)[t.b][t.id]
        IN \/ f.st = "done" /\ Returned(t, f.pkg, f.err) \in tasks'
           \/ t.kind = "import" /\ Ctx(t.b) /\ Returned(t, NilPkg, "cancelled") \in tasks'

\* C33: a futurePackage is a single-producer latch: its value is written
\* once, by the frame that installed it, when that frame returns, on every
\* exit path, and together with the closing of done; a closed future never
\* changes, so every consumer that finds it closed reads the same value.
C33_Latch ==
    [][/\ \A b \in Batches, id \in PackageIDs :
            /\ FutureStep(b, id, "syntax", syntaxPackages[b][id], syntaxPackages'[b][id])
            /\ FutureStep(b, id, "import", importPackages[b][id], importPackages'[b][id])
       /\ \A t \in tasks : ConsumerStep(t)
       /\ OneProducer(tasks', syntaxPackages', importPackages')]_vars

\* A consumer of an import future has returned the package its producer
\* stored, and the producer of a syntax future has closed it with an error.
C33_Witness ==
    /\ \E t, u \in DoneFrames :
        /\ t.kind = "import" /\ t.held # "" /\ t.pkg # NilPkg
        /\ u.kind = "import" /\ u.b = t.b /\ u.id = t.id /\ u.held = ""
        /\ u.pkg = t.pkg /\ importPackages[t.b][t.id] = Done(t.pkg, "")
    /\ \E t \in DoneFrames :
        t.kind = "syntax" /\ t.err # "" /\ syntaxPackages[t.b][t.id] = Done(NilPkg, t.err)

\* Every goroutine of batch b has returned and every future of its two maps
\* is closed.
BatchComplete(b) ==
    /\ \A t \in tasks : t.b = b => t.pc = "done"
    /\ \A id \in PackageIDs :
        syntaxPackages[b][id].st # "pending" /\ importPackages[b][id].st # "pending"

\* C34: when forEachPackageInternal returns, to TypeCheck or to
\* resolveImportGraph, every goroutine of the batch has returned, whether or
\* not one of them failed, and every future of the batch is closed; and
\* when the import-only batch returns no error every future of
\* importPackages holds a package or an error, so that resolveImportGraph
\* does not panic.
C34_BatchComplete ==
    /\ \A c \in Calls : (HasReturned(c) /\ c \in started) => BatchComplete(c)
    /\ (resolver = "done" /\ 0 \in started) => BatchComplete(0)
    /\ (resolver = "batch" /\ GroupWait(0) /\ gErr[0] = "") =>
        \A id \in PackageIDs : ~NotEvaluated(importPackages[0][id])
    /\ importGraph.ok =>
        \A id \in PackageIDs : importGraph.imports[id] = NoFuture
                                  \/ ~NotEvaluated(importGraph.imports[id])

\* A call has returned an error with one of its packages built, after an
\* import-only batch that published its futures.
C34_Witness ==
    /\ importGraph.ok /\ 0 \in started
    /\ \E id \in PackageIDs : importGraph.imports[id].st = "done"
    /\ \E c \in Calls :
        /\ HasReturned(c) /\ c \in started /\ calls[c].err # ""
        /\ \E t, u \in TopFrames(c) : t.err # "" /\ u.err = "" /\ u.pkg # NilPkg

\* C35 (as stated): in a batch that reuses an import graph, when a requested
\* package is also in the graph, the packages that import it in this batch
\* receive the package that this batch built in full and passed to post,
\* and not the one of the graph.
C35_AsStated ==
    \A t, u \in DoneFrames :
        (/\ t.b = u.b /\ t.id = u.id /\ Reused(t.b, t.id)
         /\ u.kind = "syntax" /\ u.pk = "top" /\ u.pkg # NilPkg /\ nPost[u.b][u.id] = 1
         /\ t.kind = "import" /\ t.pkg # NilPkg)
        => t.pkg = u.pkg

\* C36: the CPU tokens held in a batch never exceed the capacity of the
\* semaphore; they are held by the frames inside checkPackage, one each;
\* and a frame that has returned from handleSyntaxPackage, with a package,
\* an error or the cancellation, holds none, so that no token is held when
\* the batch returns.
C36_Tokens ==
    \A b \in Batches :
        /\ cpulimit[b] \in 0..CpuWidth
        /\ cpulimit[b] = Cardinality({t \in tasks : t.b = b /\ t.pc = "checker"})
        /\ \A t \in tasks : (t.b = b /\ t.pc = "checker") => t.kind = "syntax"
        /\ (b \in Calls /\ HasReturned(b)) => cpulimit[b] = 0
        /\ (b = 0 /\ resolver = "done") => cpulimit[b] = 0

\* A call has returned with no token held after one of its packages was
\* checked and posted and another was cancelled inside the checker.
C36_Witness ==
    \E c \in Calls :
        /\ HasReturned(c) /\ cpulimit[c] = 0 /\ calls[c].cut # {}
        /\ \E t, u \in TopFrames(c) :
            /\ t.kind = "syntax" /\ t.err = "" /\ nPost[c][t.id] = 1
            /\ u.kind = "syntax" /\ u.err = "cancelled" /\ u.id \in calls[c].cut

\* getImportGraph returns to the call c, which starts its batch.
LatchStep(c) == calls[c].pc = "latch" /\ calls'[c].pc = "wait"

\* The futures a batch starts with when it is given no import graph.
NoImports == [id \in PackageIDs |-> NoFuture]

\* C37: the import graph is computed under the background context: its
\* batch never sees a cancellation; a caller whose context is cancelled may
\* get nil; a caller with a live context gets the graph only once the
\* computation has finished, and then the graph it published; and a graph
\* is handed out only after resolveImportGraph found or made its deps those
\* of this snapshot, which holds for a graph carried over from the previous
\* snapshot too.
C37_BackgroundGraph ==
    [][/\ \A c \in Calls : LatchStep(c) =>
            IF importGraphDone = "closed" /\ resolver = "done"
               /\ importGraph.ok /\ importGraph.deps = DepsMap
            THEN \/ importPackages'[c] = importGraph.imports /\ calls'[c].graph
                 \/ ctxDone[c] /\ importPackages'[c] = NoImports /\ ~calls'[c].graph
            ELSE /\ importPackages'[c] = NoImports /\ ~calls'[c].graph
                 /\ ctxDone[c] \/ (importGraphDone = "closed" /\ ~importGraph.ok)
       /\ \A t \in tasks' : t.b = 0 => t.err # "cancelled"]_vars

\* The caller that started the computation was cancelled and got no graph;
\* the computation has finished all the same, and a later caller with a
\* live context has used the graph.
C37_Witness ==
    \E c, d \in Calls :
        /\ ctxDone[c] /\ c \in started /\ ~calls[c].graph
        /\ ~ctxDone[d] /\ HasReturned(d) /\ calls[d].graph /\ calls[d].err = ""
        /\ resolver = "done" /\ importGraph.ok
        /\ \E id \in PackageIDs : importGraph.imports[id].st = "done"
                                   /\ importPackages[d][id] = importGraph.imports[id]

\* The batches that were handed the import graph and have not returned.
GraphUsers == {c \in Calls : calls[c].graph /\ calls[c].pc = "wait"}

\* C38: once the import graph is published no step changes it: not its
\* deps, not its imports, not the files of its file set; nor are the files
\* of the graph carried over from the preceding snapshot ever changed.  The
\* futures and the files of a batch that reuses the graph only grow from
\* those of the graph.
C38_GraphImmutable ==
    [][/\ resolver = "done" =>
            /\ importGraph' = importGraph
            /\ fsets'[importGraph.fset] = fsets[importGraph.fset]
       /\ fsets'[LastFileSet] = fsets[LastFileSet]
       /\ \A c \in Calls : calls'[c].graph =>
            /\ FsetOf(c)' # importGraph'.fset
            /\ fsets[importGraph.fset] \subseteq fsets'[c]
            /\ \A id \in PackageIDs : importGraph.imports[id].st # "none" =>
                    importPackages'[c][id] = importGraph.imports[id]]_vars

\* Two batches share the graph at the same time; one of them has added
\* files to its file set and the other a future to its map of imports, and
\* the graph holds neither.
C38_Witness ==
    \E c, d \in GraphUsers :
        /\ c # d /\ resolver = "done" /\ importGraph.ok
        /\ fsets[importGraph.fset] # {}
        /\ fsets[c] \ fsets[importGraph.fset] # {}
        /\ \E id \in PackageIDs :
            /\ importGraph.imports[id].st = "none"
            /\ importPackages[d][id].st # "none"

\* The innermost call of goroutine g returns in this step, with an error.
Failing(g) ==
    /\ Len(builders'.run[g].stack) < Len(builders.run[g].stack)
    /\ builders'.run[g].ret.err # ""

\* Goroutine g runs the first critical section of a call for a package
\* without metadata.
MissingStep(g) ==
    /\ builders.run[g].pc = "run" /\ HandleTop(g).pc = "get"
    /\ ~meta[HandleTop(g).id].ok
    /\ builders'.run[g].stack # builders.run[g].stack

\* C39: a call of buildPackageHandle that returns an error has stored
\* nothing: the step that returns the error leaves the handle store as it
\* is, the entry for the id, if there is one, was stored by another call,
\* and no step ever replaces an entry; a call for an id without metadata
\* returns the "no metadata" error whatever the store holds.
C39_FailureStoresNothing ==
    [][/\ HandleKept
       /\ \A g \in Builders :
            /\ Failing(g) =>
                LET r == builders'.run[g].ret
                IN /\ packages' = packages
                   /\ r.err # "nometadata" =>
                        (packages'[r.id] = NoHandle \/ packages'[r.id].by # g)
            /\ MissingStep(g) =>
                /\ Failing(g)
                /\ builders'.run[g].ret = [id |-> HandleTop(g).id, err |-> "nometadata"]]_vars

\* A call for a package whose metadata was dropped has just failed with
\* "no metadata" although the store holds the handle that another goroutine
\* had stored for it.
C39_Witness ==
    \E g \in Builders :
        LET r == builders.run[g].ret
        IN /\ r.err = "nometadata" /\ r.id \in {"A", "B"}
           /\ ~meta[r.id].ok
           /\ packages[r.id] # NoHandle /\ packages[r.id].by # g

\* The index of the primary error to which the error at index k belongs.
PrimaryOf(errs, k) ==
    CHOOSE i \in Primaries(errs) : i <= k /\ \A j \in Primaries(errs) : j <= k => j <= i

\* C40: expandErrors returns as many errors as it was given, in the order
\* of the input: the k-th output is located at the k-th input and belongs
\* to the primary before it, being that primary itself or a clone that has
\* the primary as its first secondary; a first error whose message starts
\* with a tab is a primary and keeps its message.
C40_NumberAndOrder ==
    ExpandDone =>
        LET errs == pure.errs
            out == pure.result
        IN /\ Len(out) = Len(errs)
           /\ \A k \in 1..Len(errs) :
                LET i == PrimaryOf(errs, k)
                IN /\ out[k].primary.Pos = errs[k].Pos
                   /\ IF k = i THEN out[k].primary = errs[k]
                      ELSE /\ Len(out[k].secondaries) = 1 + Continuations(errs, i)
                           /\ out[k].secondaries[1] = errs[i]
                           /\ out[k].primary.Soft = errs[i].Soft

\* A continuation, then a plain error with a continuation of its own: the
\* first is returned as it is, with no secondaries; the third is a clone of
\* the second.
C40_Witness ==
    /\ ExpandDone /\ Len(pure.errs) = 3
    /\ pure.errs[1].Msg = <<"\t", "y">> /\ pure.errs[2].Msg = <<"x">>
    /\ pure.errs[3].Msg = <<"\t", "y">>
    /\ Len(pure.result) = 3
    /\ pure.result[1] = [primary |-> pure.errs[1], secondaries |-> <<>>]
    /\ pure.result[2].primary = pure.errs[2]
    /\ pure.result[3].primary.Pos = 3 /\ pure.result[3].secondaries[1] = pure.errs[2]

====
